---- MODULE Spec2Model ----
(***************************************************************************)
(* A model of mas-scout: the registry watcher (scrape, snapshot store,     *)
(* diff, report) and the enrichment pipeline (per-company loop, persisted  *)
(* enrichment / outreach state).                                           *)
(*                                                                         *)
(* Three specifications share the module:                                  *)
(*   SpecDiff   diffSnapshots as a pure function over bounded inputs       *)
(*   SpecStore  the watcher run and the snapshot store, with a wall clock  *)
(*              and crashes in the middle of a file write                  *)
(*   SpecPipe   the pipeline run and its two persisted files               *)
(***************************************************************************)
EXTENDS Integers, Sequences, FiniteSets, TLC

VARIABLES
    \* ---- SpecDiff
    current,      \* diffSnapshots' first argument
    previous,     \* diffSnapshots' second argument
    diff,         \* its result, NoDiff before the call
    dpc,          \* "call" before the call, "done" after
    \* ---- SpecStore: the environment
    clock,        \* the wall clock, in seconds (new Date())
    files,        \* the snapshot directory: file stamp -> JSON text
    lastWritten,  \* the stamp of the file written last (greatest mtime)
    report,       \* what the last report written was generated from
    reportWrites, \* how many reports were written
    \* ---- SpecStore: the watcher process (src/watcher/index.js main)
    wpc,          \* its position
    institutions, \* const institutions = await scrapeAll()
    wprevious,    \* const previous = loadLatestSnapshot()
    wfile,        \* the stamp saveSnapshot computed (filename)
    wtext,        \* the text saveSnapshot writes
    exitCode,     \* the process' exit code, -1 while it runs
    runs,         \* watcher runs started
    lastSaved,    \* the argument and stamp of the last completed
                  \* saveSnapshot call, until the next call starts
    wstart,       \* what loadLatestSnapshot would have returned when the
                  \* last watcher run started (not a variable of the code)
    \* ---- SpecPipe: the files of data/ and the pipeline process
    \*      (src/pipeline.js main)
    enrichFile,   \* data/enrichment.json
    outreachFile, \* data/outreach.json
    ppc,          \* the position of the pipeline process
    pargs,        \* its command line
    targets,      \* let targets
    pidx,         \* the loop index i, counted from 1
    enrichedMap,  \* const enrichedMap, its values in insertion order
    outreachMap,  \* const outreachMap, its values in insertion order
    pexit,        \* the exit code, -1 while the process runs
    pruns,        \* pipeline runs started
    enrichLog,    \* the enrich calls of this run and how each ended
    skipLog,      \* const existing of every company the last run skipped
    completed,    \* the companies whose loop iteration was completed,
                  \* in this run or an earlier one
    \* ---- the specifications of one function call
    farg,         \* the arguments of the call
    fret,         \* what the call returned, NoReturn before it
    fpc,          \* "idle", "call" before the call, "done" after
    \* ---- SpecSearch: the browser session of the enricher
    \*      (src/enricher/scraper.js enrichWithBrowser) inside the loop
    \*      of the pipeline
    epc,          \* the position inside the loop and enrichWithBrowser
    eidx,         \* the loop index i of the pipeline, counted from 1
    linkedInUrl,  \* const linkedInUrl, "" for null
    found,        \* contacts.length after the search for compliance roles
    searchLog,    \* the searches and pauses of the run, in order
    \* ---- SpecScrape: one call of scrapeAll (src/watcher/scraper.js)
    cpc,          \* "idle", "loop" inside the for loop, "done" after it
    cidx,         \* the position of the loop in WATCHED_CATEGORIES
    allRows,      \* const allRows
    fetchLog,     \* the requests sent to the registry and how each ended
    scraped,      \* what scrapeAll returned, << >> before it returns
    \* ---- SpecSystem: the watcher and the pipeline on one data directory
    selectLog     \* of every pipeline run: the snapshots on disk when it
                  \* started and the companies it selected

dvars == <<current, previous, diff, dpc>>

svars == <<clock, files, lastWritten, report, reportWrites,
           wpc, institutions, wprevious, wfile, wtext, exitCode, runs,
           lastSaved, wstart>>

pvars == <<enrichFile, outreachFile, ppc, pargs, targets, pidx, enrichedMap,
           outreachMap, pexit, pruns, enrichLog, skipLog, completed>>

fvars == <<farg, fret, fpc>>

evars == <<epc, eidx, linkedInUrl, found, searchLog>>

cvars == <<cpc, cidx, allRows, fetchLog, scraped>>

hvars == <<selectLog>>

vars == <<dvars, svars, pvars, fvars, evars, cvars, hvars>>

(***************************************************************************)
(* Bounds                                                                  *)
(***************************************************************************)
\* longest entity list handed to diffSnapshots
MaxLen == 2
\* seconds the wall clock may advance
MaxTicks == 2
\* watcher runs
MaxRuns == 3
\* pipeline runs
MaxPipeRuns == 2
\* entities of the map handed to the cross-company dedup pass
MaxEntities == 3
\* words of a company name handed to normalizeCompanyName
MaxWords == 3
\* contacts of the list handed to rankContacts
MaxContacts == 3
\* parts of the title of a contact handed to rankContacts
MaxTitleParts == 2
\* companies the loop of the pipeline enriches in one run
MaxSearched == 2
\* rows handed to mergeRows
MaxRows == 3

(***************************************************************************)
(* Helpers on sequences                                                    *)
(***************************************************************************)
SeqsUpTo(S, n) == UNION {[1..k -> S] : k \in 0..n}

Range(s) == {s[i] : i \in DOMAIN s}

(***************************************************************************)
(* Diff engine: src/src/watcher/snapshot.js                                *)
(***************************************************************************)
\* the value of an absent registry identifier (fid: '' or undefined)
NoFid == ""

\* Entities as the tests of diffSnapshots build them: a name, an optional
\* registry identifier, and one representative of the other fields.
DiffEntities ==
    { [name |-> "Alpha", fid |-> "100", address |-> "a1"],
      [name |-> "Alpha", fid |-> "100", address |-> "a2"],
      [name |-> "Alpha Corp", fid |-> "100", address |-> "a1"],
      [name |-> "Beta", fid |-> "200", address |-> "a1"],
      [name |-> "Gamma", fid |-> NoFid, address |-> "a1"],
      [name |-> "Gamma", fid |-> NoFid, address |-> "a2"] }

NoDiff == [added |-> <<"none">>, removed |-> <<"none">>]

\* mutant: added filtered against the names of current instead of previous
diffSnapshots_wrongSet(cur, prev) ==
    LET currNames == {cur[i].name : i \in DOMAIN cur}
    IN  [added   |-> SelectSeq(cur, LAMBDA i : i.name \notin currNames),
         removed |-> SelectSeq(prev, LAMBDA i : i.name \notin currNames)]

\* mutant: entities compared as whole records instead of by name
diffSnapshots_deepEqual(cur, prev) ==
    [added   |-> SelectSeq(cur, LAMBDA i : i \notin Range(prev)),
     removed |-> SelectSeq(prev, LAMBDA i : i \notin Range(cur))]

diffSnapshots(cur, prev) ==
    LET prevNames == {prev[i].name : i \in DOMAIN prev}
        currNames == {cur[i].name : i \in DOMAIN cur}
    IN  [added   |-> SelectSeq(cur, LAMBDA i : i.name \notin prevNames),
         removed |-> SelectSeq(prev, LAMBDA i : i.name \notin currNames)]

\* the key scrapeAll gives an entity: its registry identifier when it has
\* one, its name otherwise
EntityKey(inst) == IF inst.fid # NoFid THEN inst.fid ELSE inst.name

\* a step of the watcher or of its environment leaves the rest alone
StoreStep == UNCHANGED <<dvars, pvars, fvars, evars, cvars, hvars>>

\* a call of the pure functions leaves the processes alone
PureStep == UNCHANGED <<svars, pvars, fvars, evars, cvars, hvars>>

(***************************************************************************)
(* Registry scraper: src/src/watcher/scraper.js                            *)
(***************************************************************************)
WATCHED_CATEGORIES ==
    << "Capital Markets Services Licensee",
       "Major Payment Institution",
       "Standard Payment Institution" >>

Row(n, a, w, lt, act) ==
    [name |-> n, address |-> a, phone |-> "6000", website |-> w,
     sector |-> "Fin", licenseType |-> lt, activity |-> act]

\* The rows parsePrintTable returns for a category's page: one row per
\* licence / activity combination of an organisation.
RegistryPage(category) ==
    CASE category = "Capital Markets Services Licensee" ->
           << Row("Alpha", "a1", "w1", category, "Dealing"),
              Row("Alpha", "a1", "w1", category, "Fund Management") >>
      [] category = "Major Payment Institution" ->
           << Row("Alpha", "a1", "w1", category, "Transfer"),
              Row("Beta", "b1", "", category, "Transfer") >>
      [] OTHER -> << >>

\* scrapeCategory either throws (fetch failed, HTTP status not ok) or
\* returns the page's rows.
FetchOutcomes == [DOMAIN WATCHED_CATEGORIES -> {"ok", "fail"}]

\* mutant: a repeated row pushes its values without looking for them
RECURSIVE mergeRowsFrom_pushAll(_, _)
mergeRowsFrom_pushAll(rows, acc) ==
    IF rows = << >> THEN acc
    ELSE
      LET row == Head(rows)
          at  == {i \in DOMAIN acc : acc[i].name = row.name}
      IN  IF at # {}
          THEN LET i == CHOOSE k \in at : TRUE
                   existing == acc[i]
                   acts == IF row.activity # ""
                           THEN Append(existing.activities, row.activity)
                           ELSE existing.activities
                   lics == IF row.licenseType # ""
                           THEN Append(existing.licenseTypes, row.licenseType)
                           ELSE existing.licenseTypes
               IN  mergeRowsFrom_pushAll(Tail(rows),
                       [acc EXCEPT ![i] = [existing EXCEPT
                                             !.activities = acts,
                                             !.licenseTypes = lics]])
          ELSE mergeRowsFrom_pushAll(Tail(rows),
                   Append(acc,
                       [name |-> row.name,
                        address |-> row.address,
                        phone |-> row.phone,
                        website |-> row.website,
                        sector |-> row.sector,
                        licenseTypes |-> IF row.licenseType # ""
                                         THEN <<row.licenseType>> ELSE << >>,
                        activities |-> IF row.activity # ""
                                       THEN <<row.activity>> ELSE << >>]))

RECURSIVE mergeRowsFrom(_, _)
mergeRowsFrom(rows, acc) ==
    IF rows = << >> THEN acc
    ELSE
      LET row == Head(rows)
          at  == {i \in DOMAIN acc : acc[i].name = row.name}
      IN  IF at # {}
          THEN LET i == CHOOSE k \in at : TRUE
                   existing == acc[i]
                   acts == IF row.activity # ""
                              /\ row.activity \notin Range(existing.activities)
                           THEN Append(existing.activities, row.activity)
                           ELSE existing.activities
                   lics == IF row.licenseType # ""
                              /\ row.licenseType \notin Range(existing.licenseTypes)
                           THEN Append(existing.licenseTypes, row.licenseType)
                           ELSE existing.licenseTypes
               IN  mergeRowsFrom(Tail(rows),
                       [acc EXCEPT ![i] = [existing EXCEPT
                                             !.activities = acts,
                                             !.licenseTypes = lics]])
          ELSE mergeRowsFrom(Tail(rows),
                   Append(acc,
                       [name |-> row.name,
                        address |-> row.address,
                        phone |-> row.phone,
                        website |-> row.website,
                        sector |-> row.sector,
                        licenseTypes |-> IF row.licenseType # ""
                                         THEN <<row.licenseType>> ELSE << >>,
                        activities |-> IF row.activity # ""
                                       THEN <<row.activity>> ELSE << >>]))

mergeRows(rows) == mergeRowsFrom(rows, << >>)

RECURSIVE allRowsFrom(_, _)
allRowsFrom(outcome, c) ==
    IF c > Len(WATCHED_CATEGORIES) THEN << >>
    ELSE (IF outcome[c] = "ok" THEN RegistryPage(WATCHED_CATEGORIES[c])
          ELSE << >>) \o allRowsFrom(outcome, c + 1)

\* scrapeAll: every category once, a failed one skipped, the rows merged
scrapeAll(outcome) == mergeRows(allRowsFrom(outcome, 1))

(***************************************************************************)
(* JSON text of a snapshot, as a sequence of tokens                        *)
(* JSON.stringify(data, null, 2) / JSON.parse(readFileSync(...))           *)
(***************************************************************************)
DigitStr == <<"0", "1", "2", "3", "4", "5", "6", "7", "8", "9">>

NumStr(n) == DigitStr[n + 1]

StrNum(s) == CHOOSE n \in 0..9 : DigitStr[n + 1] = s

StringifyStrings(xs) == <<"[">> \o xs \o <<"]">>

StringifyEntity(e) ==
    << "{", "name:", e.name, "address:", e.address, "phone:", e.phone,
       "website:", e.website, "sector:", e.sector, "licenseTypes:" >>
    \o StringifyStrings(e.licenseTypes)
    \o << "activities:" >>
    \o StringifyStrings(e.activities)
    \o << "}" >>

RECURSIVE StringifyEntities(_)
StringifyEntities(es) ==
    IF es = << >> THEN << >>
    ELSE StringifyEntity(Head(es)) \o StringifyEntities(Tail(es))

JSONstringify(data) ==
    << "{", "timestamp:", data.timestamp[1], data.timestamp[2],
       "count:", NumStr(data.count), "institutions:", "[" >>
    \o StringifyEntities(data.institutions)
    \o << "]", "}" >>

ParseFail == [ok |-> FALSE, val |-> << >>, next |-> 0]

RECURSIVE ParseStringsFrom(_, _, _)
ParseStringsFrom(t, p, acc) ==
    IF p > Len(t) THEN ParseFail
    ELSE IF t[p] = "]" THEN [ok |-> TRUE, val |-> acc, next |-> p + 1]
    ELSE ParseStringsFrom(t, p + 1, Append(acc, t[p]))

ParseStrings(t, p) ==
    IF p <= Len(t) /\ t[p] = "[" THEN ParseStringsFrom(t, p + 1, << >>)
    ELSE ParseFail

ParseEntity(t, p) ==
    IF \/ p + 11 > Len(t)
       \/ t[p] # "{"
       \/ t[p + 1] # "name:"
       \/ t[p + 3] # "address:"
       \/ t[p + 5] # "phone:"
       \/ t[p + 7] # "website:"
       \/ t[p + 9] # "sector:"
       \/ t[p + 11] # "licenseTypes:"
    THEN ParseFail
    ELSE
      LET lic == ParseStrings(t, p + 12)
      IN  IF ~ lic.ok \/ lic.next > Len(t) \/ t[lic.next] # "activities:"
          THEN ParseFail
          ELSE
            LET act == ParseStrings(t, lic.next + 1)
            IN  IF ~ act.ok \/ act.next > Len(t) \/ t[act.next] # "}"
                THEN ParseFail
                ELSE [ok |-> TRUE,
                      val |-> [name |-> t[p + 2],
                               address |-> t[p + 4],
                               phone |-> t[p + 6],
                               website |-> t[p + 8],
                               sector |-> t[p + 10],
                               licenseTypes |-> lic.val,
                               activities |-> act.val],
                      next |-> act.next + 1]

RECURSIVE ParseEntitiesFrom(_, _, _)
ParseEntitiesFrom(t, p, acc) ==
    IF p > Len(t) THEN ParseFail
    ELSE IF t[p] = "]" THEN [ok |-> TRUE, val |-> acc, next |-> p + 1]
    ELSE LET e == ParseEntity(t, p)
         IN  IF ~ e.ok THEN ParseFail
             ELSE ParseEntitiesFrom(t, e.next, Append(acc, e.val))

\* JSON.parse: the value of a complete text; a truncated text throws
\* (ok = FALSE)
JSONparse(t) ==
    IF \/ Len(t) < 8
       \/ t[1] # "{"
       \/ t[2] # "timestamp:"
       \/ t[5] # "count:"
       \/ t[7] # "institutions:"
       \/ t[8] # "["
    THEN ParseFail
    ELSE
      LET es == ParseEntitiesFrom(t, 9, << >>)
      IN  IF ~ es.ok \/ es.next # Len(t) \/ t[es.next] # "}"
          THEN ParseFail
          ELSE [ok |-> TRUE,
                val |-> [timestamp |-> <<t[3], t[4]>>,
                         count |-> StrNum(t[6]),
                         institutions |-> es.val],
                next |-> es.next + 1]

(***************************************************************************)
(* Snapshot store: src/src/watcher/snapshot.js                             *)
(***************************************************************************)
\* new Date().toISOString(): zero-padded decimal fields; two digits stand
\* for them
IsoDigits(t) == <<t \div 10, t % 10>>

\* ts = toISOString().replace(/[:.]/g, '-').slice(0, 19): the stamp has
\* the resolution of one second; filename = `snapshot-${ts}.json`
Stamp(t) == IsoDigits(t)

NoFile == << >>

NoData == [timestamp |-> << >>, count |-> 0, institutions |-> << >>]

\* mutant: count taken before the list is filled
SnapshotData_staleCount(insts, t) ==
    [timestamp |-> <<NumStr(IsoDigits(t)[1]), NumStr(IsoDigits(t)[2])>>,
     count |-> 0,
     institutions |-> insts]

\* the data object saveSnapshot builds
SnapshotData(insts, t) ==
    [timestamp |-> <<NumStr(IsoDigits(t)[1]), NumStr(IsoDigits(t)[2])>>,
     count |-> Len(insts),
     institutions |-> insts]

\* the order of Array.prototype.sort() on file names: by code unit, a
\* proper prefix first
LexLess(a, b) ==
    \/ \E k \in 1..Len(a) :
          /\ k <= Len(b)
          /\ \A j \in 1..(k - 1) : a[j] = b[j]
          /\ a[k] < b[k]
    \/ /\ Len(a) < Len(b)
       /\ \A j \in 1..Len(a) : a[j] = b[j]

\* mutant: the file written last (greatest mtime) instead of the greatest
\* name
LatestFile_byMtime(names) == lastWritten

\* files[0] of readdirSync(...).filter(...).sort().reverse()
LatestFile(names) ==
    CHOOSE f \in names : \A g \in names : g = f \/ LexLess(g, f)

\* what writeFileSync leaves on disk before it has written everything: the
\* file is created or truncated first, then filled
PartialLens(text) == {0, Len(text) \div 2}

WriteFile(dir, name, text) ==
    [f \in DOMAIN dir \cup {name} |-> IF f = name THEN text ELSE dir[f]]

\* loadLatestSnapshot: null for an empty directory, else the parsed text
\* of the greatest file name; JSON.parse throws on a truncated text
loadLatestSnapshot ==
    IF DOMAIN files = {}
    THEN [kind |-> "null", file |-> NoFile, data |-> NoData]
    ELSE LET f == LatestFile(DOMAIN files)
             r == JSONparse(files[f])
         IN  IF r.ok
             THEN [kind |-> "snapshot", file |-> f, data |-> r.val]
             ELSE [kind |-> "throws", file |-> f, data |-> NoData]

(***************************************************************************)
(* Watcher run: src/src/watcher/index.js                                   *)
(***************************************************************************)
NoReport == [added |-> << >>, removed |-> << >>, count |-> 0]

NoSave == [kind |-> "none", file |-> NoFile, x |-> << >>]

NoLoad == [kind |-> "none", file |-> NoFile, data |-> NoData]

\* await new Promise(r => setTimeout(r, 2000)) after every category that
\* was fetched: the least time scrapeAll takes, one such pause counted
ScrapeSeconds(outcome) ==
    IF \E c \in DOMAIN outcome : outcome[c] = "ok" THEN 2 ELSE 0

\* main, step 1: scrapeAll (a new process: cron starts one a day)
WatcherScrape ==
    /\ StoreStep
    /\ wpc \in {"idle", "exit", "crashed"}
    /\ runs < MaxRuns
    /\ runs' = runs + 1
    /\ \E outcome \in FetchOutcomes :
          /\ institutions' = scrapeAll(outcome)
          /\ clock' = clock + ScrapeSeconds(outcome)
          /\ clock' <= 9 + MaxTicks
    /\ wpc' = "scraped"
    /\ wprevious' = NoLoad
    /\ wfile' = NoFile
    /\ wtext' = << >>
    /\ exitCode' = -1
    /\ wstart' = loadLatestSnapshot
    /\ UNCHANGED <<files, lastWritten, report, reportWrites, lastSaved>>

\* mutant: the check of an empty scrape is missing
NothingScraped_unchecked(insts) == FALSE

\* if (institutions.length === 0)
NothingScraped(insts) == Len(insts) = 0

\* main: no institution scraped: process.exit(1)
WatcherHaltEmpty ==
    /\ StoreStep
    /\ wpc = "scraped"
    /\ NothingScraped(institutions)
    /\ wpc' = "exit"
    /\ exitCode' = 1
    /\ UNCHANGED <<clock, files, lastWritten, report, reportWrites,
                   institutions, wprevious, wfile, wtext, runs, lastSaved,
                   wstart>>

\* main, step 2: previous = loadLatestSnapshot(); a throw reaches
\* main().catch, which exits with 1
WatcherLoad ==
    /\ StoreStep
    /\ wpc = "scraped"
    /\ ~ NothingScraped(institutions)
    /\ wprevious' = loadLatestSnapshot
    /\ IF wprevious'.kind = "throws"
       THEN wpc' = "exit" /\ exitCode' = 1
       ELSE wpc' = "loaded" /\ exitCode' = exitCode
    /\ UNCHANGED <<clock, files, lastWritten, report, reportWrites,
                   institutions, wfile, wtext, runs, lastSaved, wstart>>

\* main, step 3, saveSnapshot up to the middle of writeFileSync: the file
\* name is fixed by the clock, the text is built, the file holds a part
\* of the text
WatcherSaveOpen ==
    /\ StoreStep
    /\ wpc = "loaded"
    /\ wfile' = Stamp(clock)
    /\ wtext' = JSONstringify(SnapshotData(institutions, clock))
    /\ \E k \in PartialLens(wtext') :
          files' = WriteFile(files, wfile', SubSeq(wtext', 1, k))
    /\ lastWritten' = wfile'
    /\ lastSaved' = NoSave
    /\ wpc' = "writing"
    /\ UNCHANGED <<clock, report, reportWrites, institutions, wprevious,
                   exitCode, runs, wstart>>

\* saveSnapshot, the rest of writeFileSync, and its return
WatcherSaveWrite ==
    /\ StoreStep
    /\ wpc = "writing"
    /\ files' = WriteFile(files, wfile, wtext)
    /\ lastSaved' = [kind |-> "saved", file |-> wfile, x |-> institutions]
    /\ wpc' = "saved"
    /\ UNCHANGED <<clock, lastWritten, report, reportWrites, institutions,
                   wprevious, wfile, wtext, exitCode, runs, wstart>>

\* mutant: the diff against the snapshot that is the latest after step 3
WatcherDiffReport_reload ==
    /\ StoreStep
    /\ wpc = "saved"
    /\ LET prev == loadLatestSnapshot
           d == IF prev.kind = "snapshot"
                THEN diffSnapshots(institutions, prev.data.institutions)
                ELSE [added |-> institutions, removed |-> << >>]
       IN  report' = [added |-> d.added, removed |-> d.removed,
                      count |-> Len(institutions)]
    /\ reportWrites' = reportWrites + 1
    /\ wpc' = "exit"
    /\ exitCode' = 0
    /\ institutions' = << >>
    /\ wprevious' = NoLoad
    /\ wfile' = NoFile
    /\ wtext' = << >>
    /\ UNCHANGED <<clock, files, lastWritten, runs, lastSaved, wstart>>

\* main, steps 4 to 6: the diff against the snapshot loaded in step 2 (or
\* everything added on the first run), the report file, the return
WatcherDiffReport ==
    /\ StoreStep
    /\ wpc = "saved"
    /\ LET d == IF wprevious.kind = "snapshot"
                THEN diffSnapshots(institutions, wprevious.data.institutions)
                ELSE [added |-> institutions, removed |-> << >>]
       IN  report' = [added |-> d.added, removed |-> d.removed,
                      count |-> Len(institutions)]
    /\ reportWrites' = reportWrites + 1
    /\ wpc' = "exit"
    /\ exitCode' = 0
    /\ institutions' = << >>
    /\ wprevious' = NoLoad
    /\ wfile' = NoFile
    /\ wtext' = << >>
    /\ UNCHANGED <<clock, files, lastWritten, runs, lastSaved, wstart>>

\* the process is killed (power loss, OOM kill, SIGKILL) wherever it is;
\* what it wrote so far stays on disk, what it held in memory is gone
WatcherCrash ==
    /\ StoreStep
    /\ wpc \in {"scraped", "loaded", "writing", "saved"}
    /\ wpc' = "crashed"
    /\ institutions' = << >>
    /\ wprevious' = NoLoad
    /\ wfile' = NoFile
    /\ wtext' = << >>
    /\ UNCHANGED <<clock, files, lastWritten, report, reportWrites,
                   exitCode, runs, lastSaved, wstart>>

\* the wall clock advances by a second
Tick ==
    /\ StoreStep
    /\ clock < 9 + MaxTicks
    /\ clock' = clock + 1
    /\ UNCHANGED <<files, lastWritten, report, reportWrites, wpc,
                   institutions, wprevious, wfile, wtext, exitCode, runs,
                   lastSaved, wstart>>

\* the wall clock is set back (an NTP step, an operator): Date is not
\* monotonic
ClockSetBack ==
    /\ StoreStep
    /\ clock > 9
    /\ clock' \in 9..(clock - 1)
    /\ UNCHANGED <<files, lastWritten, report, reportWrites, wpc,
                   institutions, wprevious, wfile, wtext, exitCode, runs,
                   lastSaved, wstart>>

StoreIdle ==
    /\ clock = 9
    /\ files = << >>
    /\ lastWritten = NoFile
    /\ report = NoReport
    /\ reportWrites = 0
    /\ wpc = "idle"
    /\ institutions = << >>
    /\ wprevious = NoLoad
    /\ wfile = NoFile
    /\ wtext = << >>
    /\ wstart = NoLoad
    /\ exitCode = -1
    /\ runs = 0
    /\ lastSaved = NoSave

DiffIdle ==
    /\ current = << >>
    /\ previous = << >>
    /\ diff = NoDiff
    /\ dpc = "idle"

(***************************************************************************)
(* Text: the characters of the strings the code takes apart                *)
(***************************************************************************)
Chars(s) ==
    CASE s = "" -> << >>
      [] s = "Alpha" -> << "A", "l", "p", "h", "a" >>
      [] s = "Beta" -> << "B", "e", "t", "a" >>
      [] s = "beta" -> << "b", "e", "t", "a" >>
      [] s = "Jane" -> << "J", "a", "n", "e" >>
      [] s = "Ahmad" -> << "A", "h", "m", "a", "d" >>
      [] s = "Sam" -> << "S", "a", "m" >>
      [] s = "SAM" -> << "S", "A", "M" >>
      [] s = "HEAD OF RISK" ->
           << "H", "E", "A", "D", " ", "O", "F", " ", "R", "I", "S", "K" >>
      [] s = "CCO" -> << "C", "C", "O" >>
      [] s = "MLRO" -> << "M", "L", "R", "O" >>
      [] s = "Head of Risk" ->
           << "H", "e", "a", "d", " ", "o", "f", " ", "R", "i", "s", "k" >>
      [] s = "li/jane" -> << "l", "i", "/", "j", "a", "n", "e" >>
      [] s = "li/ahmad" -> << "l", "i", "/", "a", "h", "m", "a", "d" >>
      [] s = "Chief Compliance Officer" ->
           << "C", "h", "i", "e", "f", " ", "C", "o", "m", "p", "l", "i", "a",
              "n", "c", "e", " ", "O", "f", "f", "i", "c", "e", "r" >>
      [] s = "Money Laundering Reporting Officer" ->
           << "M", "o", "n", "e", "y", " ", "L", "a", "u", "n", "d", "e", "r",
              "i", "n", "g", " ", "R", "e", "p", "o", "r", "t", "i", "n", "g",
              " ", "O", "f", "f", "i", "c", "e", "r" >>
      [] s = "Head of Compliance" ->
           << "H", "e", "a", "d", " ", "o", "f", " ", "C", "o", "m", "p", "l",
              "i", "a", "n", "c", "e" >>
      [] s = "VP Compliance" ->
           << "V", "P", " ", "C", "o", "m", "p", "l", "i", "a", "n", "c",
              "e" >>
      [] s = "Vice President Compliance" ->
           << "V", "i", "c", "e", " ", "P", "r", "e", "s", "i", "d", "e", "n",
              "t", " ", "C", "o", "m", "p", "l", "i", "a", "n", "c", "e" >>
      [] s = "Director of Compliance" ->
           << "D", "i", "r", "e", "c", "t", "o", "r", " ", "o", "f", " ", "C",
              "o", "m", "p", "l", "i", "a", "n", "c", "e" >>
      [] s = "Compliance Director" ->
           << "C", "o", "m", "p", "l", "i", "a", "n", "c", "e", " ", "D", "i",
              "r", "e", "c", "t", "o", "r" >>
      [] s = "compliance" ->
           << "c", "o", "m", "p", "l", "i", "a", "n", "c", "e" >>
      [] s = "cco" -> << "c", "c", "o" >>
      [] s = "mlro" -> << "m", "l", "r", "o" >>
      [] s = "aml" -> << "a", "m", "l" >>
      [] s = "kyc" -> << "k", "y", "c" >>
      [] s = "regulatory" ->
           << "r", "e", "g", "u", "l", "a", "t", "o", "r", "y" >>
      [] OTHER -> [i \in 1..Len(s) |-> SubSeq(s, i, i)]

UpperCase ==
    << "A", "B", "C", "D", "E", "F", "G", "H", "I", "J", "K", "L", "M",
       "N", "O", "P", "Q", "R", "S", "T", "U", "V", "W", "X", "Y", "Z" >>

LowerCase ==
    << "a", "b", "c", "d", "e", "f", "g", "h", "i", "j", "k", "l", "m",
       "n", "o", "p", "q", "r", "s", "t", "u", "v", "w", "x", "y", "z" >>

\* the lower-case letter of every upper-case letter
LowerOf ==
    [c \in {UpperCase[k] : k \in DOMAIN UpperCase} |->
        LowerCase[CHOOSE k \in DOMAIN UpperCase : UpperCase[k] = c]]

\* String.prototype.toLowerCase, character by character
toLowerCase(cs) ==
    [i \in DOMAIN cs |->
        IF cs[i] \in DOMAIN LowerOf THEN LowerOf[cs[i]] ELSE cs[i]]

\* String.prototype.includes
includes(cs, ks) ==
    \E i \in 0..(Len(cs) - Len(ks)) : SubSeq(cs, i + 1, i + Len(ks)) = ks

(***************************************************************************)
(* Enricher: src/enricher/index.js (src/unnamed/part_007) and the browser  *)
(* scraper it calls (src/src/shared/config.js, lines 20 and on)            *)
(***************************************************************************)
Contact(n, t, u, s) ==
    [name |-> n, title |-> t, linkedInUrl |-> u, source |-> s]

\* What one call of enrichWithBrowser does: connect() or a search throws,
\* or it returns the contacts it found (unique by name, SERP contacts
\* before website contacts, a website contact without linkedInUrl) and
\* the company's LinkedIn page ("" when none was found).
BrowserOutcomes ==
    { [kind |-> "throws", message |-> "connect ECONNREFUSED",
       contacts |-> << >>, linkedInUrl |-> ""],
      [kind |-> "returns", message |-> "",
       contacts |-> << >>, linkedInUrl |-> ""],
      [kind |-> "returns", message |-> "",
       contacts |-> << Contact("Ahmad", "MLRO", "li/ahmad", "ddg-serp"),
                       Contact("Jane", "CCO", "li/jane", "ddg-serp") >>,
       linkedInUrl |-> "li/company"],
      [kind |-> "returns", message |-> "",
       contacts |-> << Contact("Sam", "Head of Risk", "",
                               "company-website") >>,
       linkedInUrl |-> ""] }

\* the seniority table of rankContacts, in the order of its entries
titlePriority ==
    << [key |-> "Chief Compliance Officer", priority |-> 1],
       [key |-> "CCO", priority |-> 1],
       [key |-> "MLRO", priority |-> 2],
       [key |-> "Money Laundering Reporting Officer", priority |-> 2],
       [key |-> "Head of Compliance", priority |-> 3],
       [key |-> "VP Compliance", priority |-> 4],
       [key |-> "Vice President Compliance", priority |-> 4],
       [key |-> "Director of Compliance", priority |-> 5],
       [key |-> "Compliance Director", priority |-> 5] >>

\* priority ? priority[1] : 99
NoPriority == 99

\* key.toLowerCase() of every entry of the table
titlePriorityKeys ==
    [k \in DOMAIN titlePriority |-> toLowerCase(Chars(titlePriority[k].key))]

\* c.title?.toLowerCase().includes(...): undefined, so no entry is found,
\* for a contact without a title
HasTitle(c) == "title" \in DOMAIN c

\* mutant: the last entry whose key is contained in the title
PriorityOf_lastMatch(c) ==
    LET title == IF HasTitle(c) THEN toLowerCase(Chars(c.title)) ELSE << >>
        hits  == {k \in DOMAIN titlePriority :
                     HasTitle(c) /\ includes(title, titlePriorityKeys[k])}
    IN  IF hits = {} THEN NoPriority
        ELSE titlePriority[CHOOSE k \in hits : \A j \in hits : k >= j].priority

\* Object.entries(titlePriority).find(...): the first entry whose key is
\* contained in the title, both in lower case
PriorityOf(c) ==
    LET title == IF HasTitle(c) THEN toLowerCase(Chars(c.title)) ELSE << >>
        hits  == {k \in DOMAIN titlePriority :
                     HasTitle(c) /\ includes(title, titlePriorityKeys[k])}
    IN  IF hits = {} THEN NoPriority
        ELSE titlePriority[CHOOSE k \in hits : \A j \in hits : k <= j].priority

\* mutant: a sort that puts a contact before those of equal priority
RECURSIVE InsertByPriority_unstable(_, _)
InsertByPriority_unstable(sorted, c) ==
    IF sorted = << >> THEN <<c>>
    ELSE IF Head(sorted).priority < c.priority
         THEN <<Head(sorted)>> \o InsertByPriority_unstable(Tail(sorted), c)
         ELSE <<c>> \o sorted

\* Array.prototype.sort((a, b) => a.priority - b.priority) is stable
RECURSIVE InsertByPriority(_, _)
InsertByPriority(sorted, c) ==
    IF sorted = << >> THEN <<c>>
    ELSE IF Head(sorted).priority <= c.priority
         THEN <<Head(sorted)>> \o InsertByPriority(Tail(sorted), c)
         ELSE <<c>> \o sorted

RECURSIVE SortByPriority(_, _)
SortByPriority(cs, acc) ==
    IF cs = << >> THEN acc
    ELSE SortByPriority(Tail(cs), InsertByPriority(acc, Head(cs)))

rankContacts(contacts) ==
    SortByPriority(
        [i \in DOMAIN contacts |->
            [priority |-> PriorityOf(contacts[i])] @@ contacts[i]],
        << >>)

\* the array handed to rankContacts, after the call: map() builds a new
\* array of new objects ({ ...c, priority }) and sort() orders that one
contactsAfterRank(contacts) == contacts

\* companyInfo: << >> stands for null, <<info>> for the object; a
\* linkedInUrl of "" stands for the key deleted from the object
NoCompanyInfo == << >>

\* enrich: whatever enrichWithBrowser throws is caught and turned into an
\* empty result; threw tells whether enrich itself throws to its caller
enrich(outcome) ==
    IF outcome.kind = "throws"
    THEN [threw |-> FALSE, message |-> "",
          contacts |-> << >>, companyInfo |-> NoCompanyInfo]
    ELSE [threw |-> FALSE, message |-> "",
          contacts |-> rankContacts(outcome.contacts),
          companyInfo |-> << [linkedInUrl |-> outcome.linkedInUrl] >>]

(***************************************************************************)
(* Outreach: src/outreach/index.js (its text is in src/README.md)          *)
(***************************************************************************)
REGULATORY_HOOKS ==
    { "Capital Markets Services Licensee",
      "Major Payment Institution",
      "Standard Payment Institution" }

complianceKeywords ==
    << "compliance", "cco", "mlro", "aml", "kyc", "regulatory" >>

\* undefined: the value of prospect.contact or prospect.company of a
\* prospect without one
Undefined == << >>

\* o?.f as a condition: undefined and '' are both falsy
Get(o, f) == IF f \in DOMAIN o THEN o[f] ELSE ""

\* mutant: a company counts with a name or a website
calculateConfidence_nameOrSite(prospect) ==
    LET license == IF prospect.licenseType \in REGULATORY_HOOKS
                   THEN 30 ELSE 0
        email   == IF Get(prospect.contact, "email") # "" THEN 25 ELSE 0
        title   == IF /\ Get(prospect.contact, "title") # ""
                      /\ \E k \in DOMAIN complianceKeywords :
                            includes(toLowerCase(Chars(prospect.contact.title)),
                                     Chars(complianceKeywords[k]))
                   THEN 25 ELSE 0
        company == IF \/ Get(prospect.company, "name") # ""
                      \/ Get(prospect.company, "website") # ""
                   THEN 20 ELSE 0
        score   == license + email + title + company
    IN  IF score < 100 THEN score ELSE 100

\* the score in hundredths: 0.3 + 0.25 + 0.25 + 0.2, Math.min(score, 1).
\* Each of the sixteen sums, added in this order as IEEE 754 doubles, is
\* the double nearest to its decimal value, so the hundredths compare as
\* the doubles do.
calculateConfidence(prospect) ==
    LET license == IF prospect.licenseType \in REGULATORY_HOOKS
                   THEN 30 ELSE 0
        email   == IF Get(prospect.contact, "email") # "" THEN 25 ELSE 0
        title   == IF /\ Get(prospect.contact, "title") # ""
                      /\ \E k \in DOMAIN complianceKeywords :
                            includes(toLowerCase(Chars(prospect.contact.title)),
                                     Chars(complianceKeywords[k]))
                   THEN 25 ELSE 0
        company == IF /\ Get(prospect.company, "name") # ""
                      /\ Get(prospect.company, "website") # ""
                   THEN 20 ELSE 0
        score   == license + email + title + company
    IN  IF score < 100 THEN score ELSE 100

\* 0.7, in hundredths
CONFIDENCE_THRESHOLD == 70

\* mutant: a score equal to the threshold requires review
createSequence_atThreshold(prospect) ==
    LET confidence     == calculateConfidence(prospect)
        requiresReview == confidence <= CONFIDENCE_THRESHOLD
        status         == IF requiresReview THEN "pending_review" ELSE "ready"
    IN  [sequence |->
            << [channel |-> "email", day |-> 1, status |-> status],
               [channel |-> "linkedin_connect", day |-> 3, status |-> status],
               [channel |-> "linkedin_message", day |-> 7, status |-> status],
               [channel |-> "email", day |-> 10, status |-> status] >>,
         confidence |-> confidence,
         requiresReview |-> requiresReview]

\* the four steps; their content (generated text) is left out
createSequence(prospect) ==
    LET confidence     == calculateConfidence(prospect)
        requiresReview == confidence < CONFIDENCE_THRESHOLD
        status         == IF requiresReview THEN "pending_review" ELSE "ready"
    IN  [sequence |->
            << [channel |-> "email", day |-> 1, status |-> status],
               [channel |-> "linkedin_connect", day |-> 3, status |-> status],
               [channel |-> "linkedin_message", day |-> 7, status |-> status],
               [channel |-> "email", day |-> 10, status |-> status] >>,
         confidence |-> confidence,
         requiresReview |-> requiresReview]

(***************************************************************************)
(* Pipeline: src/pipeline.js (src/unnamed/part_003), its pure parts        *)
(***************************************************************************)
\* enrichCompany: the record of one company; the catch branch is taken
\* when enrich throws. enrichedAt and durationMs are left out.
enrichCompany(inst, outcome) ==
    LET result == enrich(outcome)
    IN  IF result.threw
        THEN [company |-> inst.name,
              licenseTypes |-> inst.licenseTypes,
              status |-> "failed",
              contacts |-> << >>,
              companyInfo |-> NoCompanyInfo,
              error |-> result.message]
        ELSE [company |-> inst.name,
              licenseTypes |-> inst.licenseTypes,
              status |-> IF Len(result.contacts) > 0
                         THEN "enriched" ELSE "no_contacts",
              contacts |-> result.contacts,
              companyInfo |-> result.companyInfo]

\* generateOutreach: << >> stands for null, <<record>> for the record;
\* createSequence does not throw (callLLM catches and falls back)
generateOutreach(enrichmentResult) ==
    IF enrichmentResult.status # "enriched"
       \/ Len(enrichmentResult.contacts) = 0
    THEN << >>
    ELSE
      LET contact == enrichmentResult.contacts[1]
          info == enrichmentResult.companyInfo
          prospect ==
            [company |-> [name |-> enrichmentResult.company,
                          website |-> IF info = NoCompanyInfo THEN ""
                                      ELSE info[1].linkedInUrl],
             contact |-> [name |-> contact.name,
                          title |-> contact.title,
                          email |-> ""],
             licenseType |-> IF Len(enrichmentResult.licenseTypes) > 0
                             THEN enrichmentResult.licenseTypes[1]
                             ELSE "Unknown"]
          result == createSequence(prospect)
      IN  << [contact |-> prospect.contact,
              company |-> enrichmentResult.company,
              licenseType |-> prospect.licenseType,
              confidence |-> result.confidence,
              requiresReview |-> result.requiresReview,
              sequence |-> result.sequence] >>

\* A Map keyed by company, as the sequence of its values in insertion
\* order: Map.prototype.set replaces in place or appends
MapSet(m, r) ==
    IF \E i \in DOMAIN m : m[i].company = r.company
    THEN [i \in DOMAIN m |-> IF m[i].company = r.company THEN r ELSE m[i]]
    ELSE Append(m, r)

\* Map.prototype.get, for a key the map holds
MapGet(m, name) == m[CHOOSE i \in DOMAIN m : m[i].company = name]

\* new Map(list.map(r => [r.company, r]))
RECURSIVE NewMap(_, _)
NewMap(list, m) ==
    IF list = << >> THEN m
    ELSE NewMap(Tail(list), MapSet(m, Head(list)))

\* the skip logic of the loop
SkipsCompany(m, name, args) ==
    \E i \in DOMAIN m :
        /\ m[i].company = name
        /\ ~ args.force
        /\ \/ m[i].status = "enriched"
           \/ m[i].status = "no_contacts" /\ ~ args.retry

\* contact.linkedInUrl || `${name.toLowerCase()}|${title.toLowerCase()}`
ContactKey(c) ==
    IF c.linkedInUrl # "" THEN Chars(c.linkedInUrl)
    ELSE toLowerCase(Chars(c.name)) \o <<"|">> \o toLowerCase(Chars(c.title))

\* contactIndex: key -> company names, in insertion order
IndexAdd(idx, key, company) ==
    IF \E i \in DOMAIN idx : idx[i].key = key
    THEN [i \in DOMAIN idx |->
            IF idx[i].key = key
            THEN [idx[i] EXCEPT !.companies = Append(@, company)]
            ELSE idx[i]]
    ELSE Append(idx, [key |-> key, companies |-> <<company>>])

RECURSIVE IndexContacts(_, _, _)
IndexContacts(idx, contacts, company) ==
    IF contacts = << >> THEN idx
    ELSE IndexContacts(IndexAdd(idx, ContactKey(Head(contacts)), company),
                       Tail(contacts), company)

RECURSIVE contactIndex(_, _)
contactIndex(idx, results) ==
    IF results = << >> THEN idx
    ELSE LET result == Head(results)
         IN  contactIndex(IF result.status # "enriched" THEN idx
                          ELSE IndexContacts(idx, result.contacts,
                                             result.company),
                          Tail(results))

\* mutant: the duplicate contacts are removed from the list
FlagContacts_removing(contacts, key, keepCompany) ==
    SelectSeq(contacts, LAMBDA c : ContactKey(c) # key)

\* contact.lowConfidence = true; contact.duplicateOf = keepCompany
FlagContacts(contacts, key, keepCompany) ==
    [i \in DOMAIN contacts |->
        IF ContactKey(contacts[i]) = key
        THEN [lowConfidence |-> TRUE, duplicateOf |-> keepCompany]
             @@ contacts[i]
        ELSE contacts[i]]

RECURSIVE FlagCompanies(_, _, _, _)
FlagCompanies(m, companies, key, keepCompany) ==
    IF companies = << >> THEN m
    ELSE FlagCompanies(
             [i \in DOMAIN m |->
                 IF m[i].company = Head(companies)
                 THEN [m[i] EXCEPT
                         !.contacts = FlagContacts(@, key, keepCompany)]
                 ELSE m[i]],
             Tail(companies), key, keepCompany)

RECURSIVE DedupFrom(_, _, _)
DedupFrom(m, idx, dupCount) ==
    IF idx = << >> THEN [map |-> m, dupCount |-> dupCount]
    ELSE LET companies == Head(idx).companies
         IN  IF Len(companies) <= 1
             THEN DedupFrom(m, Tail(idx), dupCount)
             ELSE DedupFrom(FlagCompanies(m, Tail(companies), Head(idx).key,
                                          companies[1]),
                            Tail(idx), dupCount + 1)

\* the cross-company dedup pass over enrichedMap
CrossCompanyDedup(m) == DedupFrom(m, contactIndex(<< >>, m), 0)

(***************************************************************************)
(* JSON text of data/enrichment.json and data/outreach.json, as tokens     *)
(* (lastRun and the other timestamps are left out)                         *)
(***************************************************************************)
Tok(t, p) == IF p \in DOMAIN t THEN t[p] ELSE "<eof>"

IsDigit(s) == \E n \in 0..9 : DigitStr[n + 1] = s

RECURSIVE Decimal(_)
Decimal(n) ==
    IF n < 10 THEN <<DigitStr[n + 1]>>
    ELSE Decimal(n \div 10) \o <<DigitStr[(n % 10) + 1]>>

Boolean(b) == IF b THEN "true" ELSE "false"

RECURSIVE ParseDigitsFrom(_, _, _)
ParseDigitsFrom(t, p, acc) ==
    IF IsDigit(Tok(t, p))
    THEN ParseDigitsFrom(t, p + 1, 10 * acc + StrNum(t[p]))
    ELSE [ok |-> TRUE, val |-> acc, next |-> p]

ParseNumber(t, p) ==
    IF IsDigit(Tok(t, p)) THEN ParseDigitsFrom(t, p, 0) ELSE ParseFail

\* an undefined field is not written: lowConfidence and duplicateOf exist
\* on flagged contacts only
StringifyContact(c) ==
    << "{", "name:", c.name, "title:", c.title,
       "linkedInUrl:", c.linkedInUrl, "source:", c.source, "priority:" >>
    \o Decimal(c.priority)
    \o (IF "lowConfidence" \in DOMAIN c
        THEN << "lowConfidence:", Boolean(c.lowConfidence),
                "duplicateOf:", c.duplicateOf >>
        ELSE << >>)
    \o << "}" >>

RECURSIVE StringifyContacts(_)
StringifyContacts(cs) ==
    IF cs = << >> THEN << >>
    ELSE StringifyContact(Head(cs)) \o StringifyContacts(Tail(cs))

StringifyCompanyInfo(info) ==
    IF info = NoCompanyInfo THEN << "null" >>
    ELSE IF info[1].linkedInUrl = "" THEN << "{", "}" >>
    ELSE << "{", "linkedInUrl:", info[1].linkedInUrl, "}" >>

StringifyResult(r) ==
    << "{", "company:", r.company, "licenseTypes:" >>
    \o StringifyStrings(r.licenseTypes)
    \o << "status:", r.status, "contacts:", "[" >>
    \o StringifyContacts(r.contacts)
    \o << "]", "companyInfo:" >>
    \o StringifyCompanyInfo(r.companyInfo)
    \o (IF "error" \in DOMAIN r THEN << "error:", r.error >> ELSE << >>)
    \o << "}" >>

RECURSIVE StringifyResults(_)
StringifyResults(rs) ==
    IF rs = << >> THEN << >>
    ELSE StringifyResult(Head(rs)) \o StringifyResults(Tail(rs))

\* JSON.stringify(existingEnrichment, null, 2)
StringifyEnrichment(results) ==
    << "{", "results:", "[" >> \o StringifyResults(results) \o << "]", "}" >>

\* the end of a contact: "}" or the two fields of a flagged contact
ParseContactEnd(t, q, c) ==
    IF Tok(t, q) = "}"
    THEN [ok |-> TRUE, val |-> c, next |-> q + 1]
    ELSE IF /\ Tok(t, q) = "lowConfidence:"
            /\ Tok(t, q + 1) \in {"true", "false"}
            /\ Tok(t, q + 2) = "duplicateOf:"
            /\ Tok(t, q + 4) = "}"
    THEN [ok |-> TRUE,
          val |-> [lowConfidence |-> t[q + 1] = "true",
                   duplicateOf |-> t[q + 3]] @@ c,
          next |-> q + 5]
    ELSE ParseFail

ParseContactPriority(t, p, pr) ==
    IF ~ pr.ok THEN ParseFail
    ELSE ParseContactEnd(t, pr.next,
             [name |-> t[p + 2], title |-> t[p + 4],
              linkedInUrl |-> t[p + 6], source |-> t[p + 8],
              priority |-> pr.val])

ParseContact(t, p) ==
    IF \/ Tok(t, p) # "{"
       \/ Tok(t, p + 1) # "name:"
       \/ Tok(t, p + 3) # "title:"
       \/ Tok(t, p + 5) # "linkedInUrl:"
       \/ Tok(t, p + 7) # "source:"
       \/ Tok(t, p + 9) # "priority:"
    THEN ParseFail
    ELSE ParseContactPriority(t, p, ParseNumber(t, p + 10))

RECURSIVE ParseContactsFrom(_, _, _)
ParseContactsNext(t, acc, c) ==
    IF ~ c.ok THEN ParseFail
    ELSE ParseContactsFrom(t, c.next, Append(acc, c.val))

ParseContactsFrom(t, p, acc) ==
    IF Tok(t, p) = "]" THEN [ok |-> TRUE, val |-> acc, next |-> p + 1]
    ELSE ParseContactsNext(t, acc, ParseContact(t, p))

ParseCompanyInfo(t, p) ==
    IF Tok(t, p) = "null"
    THEN [ok |-> TRUE, val |-> NoCompanyInfo, next |-> p + 1]
    ELSE IF Tok(t, p) = "{" /\ Tok(t, p + 1) = "}"
    THEN [ok |-> TRUE, val |-> << [linkedInUrl |-> ""] >>, next |-> p + 2]
    ELSE IF /\ Tok(t, p) = "{"
            /\ Tok(t, p + 1) = "linkedInUrl:"
            /\ Tok(t, p + 3) = "}"
    THEN [ok |-> TRUE, val |-> << [linkedInUrl |-> t[p + 2]] >>,
          next |-> p + 4]
    ELSE ParseFail

\* the end of a result: "}" or the error field of a failed one
ParseResultEnd(t, e, r) ==
    IF Tok(t, e) = "}"
    THEN [ok |-> TRUE, val |-> r, next |-> e + 1]
    ELSE IF Tok(t, e) = "error:" /\ Tok(t, e + 2) = "}"
    THEN [ok |-> TRUE, val |-> [error |-> t[e + 1]] @@ r, next |-> e + 3]
    ELSE ParseFail

ParseResultInfo(t, r, info) ==
    IF ~ info.ok THEN ParseFail
    ELSE ParseResultEnd(t, info.next, [companyInfo |-> info.val] @@ r)

ParseResultContacts(t, r, cs) ==
    IF ~ cs.ok \/ Tok(t, cs.next) # "companyInfo:" THEN ParseFail
    ELSE ParseResultInfo(t, [contacts |-> cs.val] @@ r,
                         ParseCompanyInfo(t, cs.next + 1))

ParseResultStatus(t, q, r) ==
    IF \/ Tok(t, q) # "status:"
       \/ Tok(t, q + 2) # "contacts:"
       \/ Tok(t, q + 3) # "["
    THEN ParseFail
    ELSE ParseResultContacts(t, [status |-> t[q + 1]] @@ r,
                             ParseContactsFrom(t, q + 4, << >>))

ParseResultLicences(t, p, lic) ==
    IF ~ lic.ok THEN ParseFail
    ELSE ParseResultStatus(t, lic.next,
             [company |-> t[p + 2], licenseTypes |-> lic.val])

ParseResult(t, p) ==
    IF \/ Tok(t, p) # "{"
       \/ Tok(t, p + 1) # "company:"
       \/ Tok(t, p + 3) # "licenseTypes:"
    THEN ParseFail
    ELSE ParseResultLicences(t, p, ParseStrings(t, p + 4))

RECURSIVE ParseResultsFrom(_, _, _)
ParseResultsNext(t, acc, r) ==
    IF ~ r.ok THEN ParseFail
    ELSE ParseResultsFrom(t, r.next, Append(acc, r.val))

ParseResultsFrom(t, p, acc) ==
    IF Tok(t, p) = "]" THEN [ok |-> TRUE, val |-> acc, next |-> p + 1]
    ELSE ParseResultsNext(t, acc, ParseResult(t, p))

\* the text must end with the "}" that closes the object
ParseObjectEnd(t, list) ==
    IF ~ list.ok \/ list.next # Len(t) \/ Tok(t, list.next) # "}"
    THEN ParseFail
    ELSE [ok |-> TRUE, val |-> list.val, next |-> list.next + 1]

\* JSON.parse of the text of enrichment.json: the results, or a throw
\* (ok = FALSE) on a text that is not complete
ParseEnrichment(t) ==
    IF Tok(t, 1) # "{" \/ Tok(t, 2) # "results:" \/ Tok(t, 3) # "["
    THEN ParseFail
    ELSE ParseObjectEnd(t, ParseResultsFrom(t, 4, << >>))

StringifyStep(s) ==
    << "{", "channel:", s.channel, "day:" >> \o Decimal(s.day)
    \o << "status:", s.status, "}" >>

RECURSIVE StringifySteps(_)
StringifySteps(ss) ==
    IF ss = << >> THEN << >>
    ELSE StringifyStep(Head(ss)) \o StringifySteps(Tail(ss))

StringifyProspect(o) ==
    << "{", "contact:", "{", "name:", o.contact.name,
       "title:", o.contact.title, "email:", o.contact.email, "}",
       "company:", o.company, "licenseType:", o.licenseType,
       "confidence:" >>
    \o Decimal(o.confidence)
    \o << "requiresReview:", Boolean(o.requiresReview), "sequence:", "[" >>
    \o StringifySteps(o.sequence)
    \o << "]", "}" >>

RECURSIVE StringifyProspects(_)
StringifyProspects(os) ==
    IF os = << >> THEN << >>
    ELSE StringifyProspect(Head(os)) \o StringifyProspects(Tail(os))

\* JSON.stringify(existingOutreach, null, 2)
StringifyOutreach(prospects) ==
    << "{", "prospects:", "[" >> \o StringifyProspects(prospects)
    \o << "]", "}" >>

ParseStepDay(t, p, day) ==
    IF \/ ~ day.ok
       \/ Tok(t, day.next) # "status:"
       \/ Tok(t, day.next + 2) # "}"
    THEN ParseFail
    ELSE [ok |-> TRUE,
          val |-> [channel |-> t[p + 2], day |-> day.val,
                   status |-> t[day.next + 1]],
          next |-> day.next + 3]

ParseStep(t, p) ==
    IF \/ Tok(t, p) # "{"
       \/ Tok(t, p + 1) # "channel:"
       \/ Tok(t, p + 3) # "day:"
    THEN ParseFail
    ELSE ParseStepDay(t, p, ParseNumber(t, p + 4))

RECURSIVE ParseStepsFrom(_, _, _)
ParseStepsNext(t, acc, s) ==
    IF ~ s.ok THEN ParseFail
    ELSE ParseStepsFrom(t, s.next, Append(acc, s.val))

ParseStepsFrom(t, p, acc) ==
    IF Tok(t, p) = "]" THEN [ok |-> TRUE, val |-> acc, next |-> p + 1]
    ELSE ParseStepsNext(t, acc, ParseStep(t, p))

ParseProspectSteps(t, o, ss) ==
    IF ~ ss.ok \/ Tok(t, ss.next) # "}" THEN ParseFail
    ELSE [ok |-> TRUE, val |-> [sequence |-> ss.val] @@ o,
          next |-> ss.next + 1]

ParseProspectConfidence(t, p, conf) ==
    IF \/ ~ conf.ok
       \/ Tok(t, conf.next) # "requiresReview:"
       \/ Tok(t, conf.next + 1) \notin {"true", "false"}
       \/ Tok(t, conf.next + 2) # "sequence:"
       \/ Tok(t, conf.next + 3) # "["
    THEN ParseFail
    ELSE ParseProspectSteps(t,
             [contact |-> [name |-> t[p + 4], title |-> t[p + 6],
                           email |-> t[p + 8]],
              company |-> t[p + 11],
              licenseType |-> t[p + 13],
              confidence |-> conf.val,
              requiresReview |-> t[conf.next + 1] = "true"],
             ParseStepsFrom(t, conf.next + 4, << >>))

ParseProspect(t, p) ==
    IF \/ Tok(t, p) # "{"
       \/ Tok(t, p + 1) # "contact:"
       \/ Tok(t, p + 2) # "{"
       \/ Tok(t, p + 3) # "name:"
       \/ Tok(t, p + 5) # "title:"
       \/ Tok(t, p + 7) # "email:"
       \/ Tok(t, p + 9) # "}"
       \/ Tok(t, p + 10) # "company:"
       \/ Tok(t, p + 12) # "licenseType:"
       \/ Tok(t, p + 14) # "confidence:"
    THEN ParseFail
    ELSE ParseProspectConfidence(t, p, ParseNumber(t, p + 15))

RECURSIVE ParseProspectsFrom(_, _, _)
ParseProspectsNext(t, acc, o) ==
    IF ~ o.ok THEN ParseFail
    ELSE ParseProspectsFrom(t, o.next, Append(acc, o.val))

ParseProspectsFrom(t, p, acc) ==
    IF Tok(t, p) = "]" THEN [ok |-> TRUE, val |-> acc, next |-> p + 1]
    ELSE ParseProspectsNext(t, acc, ParseProspect(t, p))

\* JSON.parse of the text of outreach.json
ParseOutreach(t) ==
    IF Tok(t, 1) # "{" \/ Tok(t, 2) # "prospects:" \/ Tok(t, 3) # "["
    THEN ParseFail
    ELSE ParseObjectEnd(t, ParseProspectsFrom(t, 4, << >>))

(***************************************************************************)
(* Pipeline run: src/pipeline.js (src/unnamed/part_003) main               *)
(***************************************************************************)
\* a file of data/: whether it exists, and its text
NoDataFile == [exists |-> FALSE, text |-> << >>]

\* loadExisting: << >> stands for null (no file, or JSON.parse threw),
\* <<value>> for the parsed value
loadExisting(file, parsed) ==
    IF ~ file.exists THEN << >>
    ELSE IF parsed.ok THEN << parsed.val >>
    ELSE << >>

\* loaded || { lastRun: null, results: [] }: the list of the value loaded,
\* the empty list for null
OrEmpty(loaded) == IF loaded = << >> THEN << >> ELSE loaded[1]

\* loadExisting(ENRICHMENT_FILE) || { lastRun: null, results: [] }
ExistingEnrichment ==
    OrEmpty(loadExisting(enrichFile, ParseEnrichment(enrichFile.text)))

\* loadExisting(OUTREACH_FILE) || { lastRun: null, prospects: [] }
ExistingOutreach ==
    OrEmpty(loadExisting(outreachFile, ParseOutreach(outreachFile.text)))

\* loadPreviousSnapshot: files[1] of the sorted, reversed file names
loadPreviousSnapshot ==
    IF Cardinality(DOMAIN files) < 2
    THEN [kind |-> "null", file |-> NoFile, data |-> NoData]
    ELSE LET f == LatestFile(DOMAIN files \ {LatestFile(DOMAIN files)})
             r == JSONparse(files[f])
         IN  IF r.ok
             THEN [kind |-> "snapshot", file |-> f, data |-> r.val]
             ELSE [kind |-> "throws", file |-> f, data |-> NoData]

\* process.argv: --all, --company <name>, --limit <n>, --force, --retry
NoCompany == ""

NoArgs ==
    [all |-> FALSE, company |-> NoCompany, limit |-> 0,
     force |-> FALSE, retry |-> FALSE]

\* the invocations of the usage text
PipeArgs ==
    { NoArgs,
      [NoArgs EXCEPT !.all = TRUE],
      [NoArgs EXCEPT !.all = TRUE, !.limit = 1],
      [NoArgs EXCEPT !.all = TRUE, !.retry = TRUE],
      [NoArgs EXCEPT !.all = TRUE, !.force = TRUE],
      [NoArgs EXCEPT !.company = "beta"] }

\* the companies to enrich: single company, full run or diff mode
SelectTargets(snapshot, prev, args) ==
    IF args.company # NoCompany
    THEN SelectSeq(snapshot.institutions,
                   LAMBDA i : includes(toLowerCase(Chars(i.name)),
                                       toLowerCase(Chars(args.company))))
    ELSE IF args.all THEN snapshot.institutions
    ELSE IF prev.kind = "null" THEN snapshot.institutions
    ELSE LET prevNames == {prev.data.institutions[k].name :
                              k \in DOMAIN prev.data.institutions}
         IN  SelectSeq(snapshot.institutions,
                       LAMBDA i : i.name \notin prevNames)

\* targets.slice(0, limit)
ApplyLimit(list, limit) ==
    IF limit > 0 /\ Len(list) > limit THEN SubSeq(list, 1, limit) ELSE list

\* a step of the pipeline leaves the watcher and the pure calls alone
PipeStep == UNCHANGED <<dvars, svars, fvars, evars, cvars, hvars>>

\* main up to the loop, for one command line: the snapshot, the targets,
\* the existing results. A throw of JSON.parse on a snapshot reaches
\* main().catch: exit(1).
PipeStartWith(args) ==
    /\ UNCHANGED <<dvars, svars, fvars, evars, cvars>>
    /\ ppc \in {"idle", "exit", "crashed"}
    /\ pruns < MaxPipeRuns
    /\ pruns' = pruns + 1
    /\ LET snapshot == loadLatestSnapshot
           previousSnapshot == loadPreviousSnapshot
           existingEnrichment == NewMap(ExistingEnrichment, << >>)
           existingOutreach == NewMap(ExistingOutreach, << >>)
           diffMode == args.company = NoCompany /\ ~ args.all
           prev     == IF diffMode THEN previousSnapshot
                       ELSE [kind |-> "null", file |-> NoFile,
                             data |-> NoData]
           selected == ApplyLimit(
                           SelectTargets(snapshot.data, prev, args),
                           args.limit)
       IN  IF snapshot.kind # "snapshot" \/ prev.kind = "throws"
           THEN /\ ppc' = "exit"
                /\ pexit' = 1
                /\ pargs' = NoArgs
                /\ targets' = << >>
                /\ enrichedMap' = << >>
                /\ outreachMap' = << >>
           ELSE IF Len(selected) = 0
           THEN /\ ppc' = "exit"
                /\ pexit' = 0
                /\ pargs' = NoArgs
                /\ targets' = << >>
                /\ enrichedMap' = << >>
                /\ outreachMap' = << >>
           ELSE /\ ppc' = "loop"
                /\ pexit' = -1
                /\ pargs' = args
                /\ targets' = selected
                /\ enrichedMap' = existingEnrichment
                /\ outreachMap' = existingOutreach
    /\ pidx' = 1
    /\ enrichLog' = << >>
    /\ skipLog' = << >>
    /\ UNCHANGED <<enrichFile, outreachFile, completed>>

\* a run of the pipeline with any command line of the usage text
PipeStart ==
    /\ \E args \in PipeArgs : PipeStartWith(args)
    /\ UNCHANGED hvars

\* the loop: a company that is skipped (continue)
PipeSkip ==
    /\ PipeStep
    /\ ppc = "loop"
    /\ pidx <= Len(targets)
    /\ SkipsCompany(enrichedMap, targets[pidx].name, pargs)
    /\ pidx' = pidx + 1
    /\ skipLog' = Append(skipLog,
                         MapGet(enrichedMap, targets[pidx].name))
    /\ UNCHANGED <<enrichFile, outreachFile, ppc, pargs, targets,
                   enrichedMap, outreachMap, pexit, pruns, enrichLog,
                   completed>>

\* the loop: enrichCompany, enrichedMap.set, generateOutreach,
\* outreachMap.set
PipeEnrich ==
    /\ PipeStep
    /\ ppc = "loop"
    /\ pidx <= Len(targets)
    /\ ~ SkipsCompany(enrichedMap, targets[pidx].name, pargs)
    /\ \E outcome \in BrowserOutcomes :
          LET inst == targets[pidx]
              enrichResult == enrichCompany(inst, outcome)
              outreachResult == generateOutreach(enrichResult)
          IN  /\ enrichedMap' = MapSet(enrichedMap, enrichResult)
              /\ outreachMap' =
                    IF enrichResult.status = "enriched"
                       /\ outreachResult # << >>
                    THEN MapSet(outreachMap, outreachResult[1])
                    ELSE outreachMap
              /\ enrichLog' = Append(enrichLog,
                                  [company |-> inst.name,
                                   kind |-> outcome.kind,
                                   message |-> outcome.message])
    /\ ppc' = "saveE"
    /\ UNCHANGED <<enrichFile, outreachFile, pargs, targets, pidx, pexit,
                   pruns, skipLog, completed>>

\* the text save() is writing at this position
SaveText ==
    IF ppc \in {"saveO", "writeO"}
    THEN StringifyOutreach(outreachMap)
    ELSE StringifyEnrichment(enrichedMap)

\* save(file, data) up to the middle of writeFileSync: the file is
\* truncated and holds a part of the new text
PipeSaveOpen ==
    /\ PipeStep
    /\ ppc \in {"saveE", "saveO", "resave"}
    /\ LET text == SaveText
       IN  \E k \in PartialLens(text) :
              LET partial == [exists |-> TRUE, text |-> SubSeq(text, 1, k)]
              IN  IF ppc = "saveO"
                  THEN outreachFile' = partial /\ enrichFile' = enrichFile
                  ELSE enrichFile' = partial /\ outreachFile' = outreachFile
    /\ ppc' = CASE ppc = "saveE" -> "writeE"
                [] ppc = "saveO" -> "writeO"
                [] OTHER -> "rewrite"
    /\ UNCHANGED <<pargs, targets, pidx, enrichedMap, outreachMap, pexit,
                   pruns, enrichLog, skipLog, completed>>

\* the rest of writeFileSync and what follows it: the save of the
\* outreach file, the next company, or the end of main
PipeSaveWrite ==
    /\ PipeStep
    /\ ppc \in {"writeE", "writeO", "rewrite"}
    /\ LET whole == [exists |-> TRUE, text |-> SaveText]
       IN  IF ppc = "writeO"
           THEN outreachFile' = whole /\ enrichFile' = enrichFile
           ELSE enrichFile' = whole /\ outreachFile' = outreachFile
    /\ CASE ppc = "writeE" ->
              /\ ppc' = "saveO"
              /\ UNCHANGED <<pargs, targets, pidx, enrichedMap, outreachMap,
                             pexit, enrichLog, skipLog, completed>>
         [] ppc = "writeO" ->
              /\ ppc' = "loop"
              /\ pidx' = pidx + 1
              /\ completed' = completed \cup {targets[pidx].name}
              /\ UNCHANGED <<pargs, targets, enrichedMap, outreachMap,
                             pexit, enrichLog, skipLog>>
         [] OTHER ->
              /\ ppc' = "exit"
              /\ pexit' = 0
              /\ pargs' = NoArgs
              /\ targets' = << >>
              /\ pidx' = 1
              /\ enrichedMap' = << >>
              /\ outreachMap' = << >>
              /\ enrichLog' = << >>
              /\ UNCHANGED <<skipLog, completed>>
    /\ UNCHANGED pruns

\* after the loop: the cross-company dedup pass; the enrichment file is
\* saved again when a duplicate was flagged
PipeDedup ==
    /\ PipeStep
    /\ ppc = "loop"
    /\ pidx > Len(targets)
    /\ LET d == CrossCompanyDedup(enrichedMap)
       IN  IF d.dupCount > 0
           THEN /\ enrichedMap' = d.map
                /\ ppc' = "resave"
                /\ UNCHANGED <<pargs, targets, pidx, outreachMap, pexit,
                               enrichLog, skipLog>>
           ELSE /\ ppc' = "exit"
                /\ pexit' = 0
                /\ pargs' = NoArgs
                /\ targets' = << >>
                /\ pidx' = 1
                /\ enrichedMap' = << >>
                /\ outreachMap' = << >>
                /\ enrichLog' = << >>
                /\ UNCHANGED skipLog
    /\ UNCHANGED <<enrichFile, outreachFile, pruns, completed>>

\* the process is killed wherever it is; the files keep what was written
PipeCrash ==
    /\ PipeStep
    /\ ppc \in {"loop", "saveE", "writeE", "saveO", "writeO", "resave",
                "rewrite"}
    /\ ppc' = "crashed"
    /\ pargs' = NoArgs
    /\ targets' = << >>
    /\ pidx' = 1
    /\ enrichedMap' = << >>
    /\ outreachMap' = << >>
    /\ enrichLog' = << >>
    /\ skipLog' = << >>
    /\ UNCHANGED <<enrichFile, outreachFile, pexit, pruns, completed>>

PipeIdle ==
    /\ enrichFile = NoDataFile
    /\ outreachFile = NoDataFile
    /\ ppc = "idle"
    /\ pargs = NoArgs
    /\ targets = << >>
    /\ pidx = 1
    /\ enrichedMap = << >>
    /\ outreachMap = << >>
    /\ pexit = -1
    /\ pruns = 0
    /\ enrichLog = << >>
    /\ skipLog = << >>
    /\ completed = {}

(***************************************************************************)
(* Company names and search results: src/src/shared/config.js. Strings    *)
(* are sequences of characters; a position p of a string stands between   *)
(* its p-th and its (p+1)-th character, and a pattern maps a set of        *)
(* positions to the set of positions at which a match from one of them     *)
(* can end.                                                                *)
(***************************************************************************)
\* a sequence of characters as a string
RECURSIVE Str(_)
Str(cs) == IF cs = << >> THEN "" ELSE Head(cs) \o Str(Tail(cs))

\* \s and \w over the characters of names, titles and snippets
IsSpace(c) == c = " "

WordChars ==
    Range(UpperCase) \cup Range(LowerCase) \cup Range(DigitStr) \cup {"_"}

\* \b
WordBoundary(cs, p) ==
    (p > 0 /\ cs[p] \in WordChars)
        # (p < Len(cs) /\ cs[p + 1] \in WordChars)

Boundary(cs, P) == {p \in P : WordBoundary(cs, p)}

\* \s*
Spaces(cs, P) ==
    {q \in 0..Len(cs) :
        \E p \in P : p <= q /\ \A k \in (p + 1)..q : IsSpace(cs[k])}

\* \s+
Spaces1(cs, P) ==
    Spaces(cs, {p + 1 : p \in {q \in P : q < Len(cs) /\ IsSpace(cs[q + 1])}})

\* a literal under the i flag
Lit(cs, P, w) ==
    LET lw == toLowerCase(Chars(w))
    IN  {p + Len(lw) :
            p \in {q \in P : /\ q + Len(lw) <= Len(cs)
                             /\ toLowerCase(SubSeq(cs, q + 1, q + Len(lw)))
                                    = lw}}

\* a literal followed by ?
Opt(cs, P, w) == P \cup Lit(cs, P, w)

\* a character class
AnyOf(cs, P, class) ==
    {p + 1 : p \in {q \in P : q < Len(cs) /\ cs[q + 1] \in class}}

\* $
AtEnd(cs, P) == P \cap {Len(cs)}

\* LTD\.?
LtdDot(cs, P) == Opt(cs, Lit(cs, P, "LTD"), ".")

\* mutant: the pattern without its anchor $
LEGAL_SUFFIXES_unanchored(cs, p) ==
    LET b == Boundary(cs, Spaces(cs, {p}))
        suffix ==
            LtdDot(cs, Spaces(cs, Opt(cs, Lit(cs, b, "PTE"), ".")))
            \cup Lit(cs, Spaces1(cs, Lit(cs, b, "PRIVATE")), "LIMITED")
            \cup Lit(cs, b, "LIMITED")
            \cup LtdDot(cs, b)
            \cup Opt(cs, Lit(cs, b, "INC"), ".")
            \cup Opt(cs, Lit(cs, b, "CORP"), ".")
            \cup Lit(cs, b, "LLC")
            \cup Opt(cs, Lit(cs, Opt(cs, Lit(cs, b, "L"), "."), "P"), ".")
            \cup Opt(cs, Lit(cs, Opt(cs, Lit(cs, b, "S"), "."), "A"), ".")
            \cup Lit(cs, b, "GMBH")
            \cup LtdDot(cs, Spaces(cs, Opt(cs, Lit(cs, b, "PTY"), ".")))
            \cup LtdDot(cs, Spaces(cs, Opt(cs, Lit(cs, b, "CO"), ".")))
    IN  Spaces(cs, Opt(cs, Spaces(cs, suffix), "."))

\* const LEGAL_SUFFIXES, matched from position p
LEGAL_SUFFIXES(cs, p) ==
    LET b == Boundary(cs, Spaces(cs, {p}))
        suffix ==
            LtdDot(cs, Spaces(cs, Opt(cs, Lit(cs, b, "PTE"), ".")))
            \cup Lit(cs, Spaces1(cs, Lit(cs, b, "PRIVATE")), "LIMITED")
            \cup Lit(cs, b, "LIMITED")
            \cup LtdDot(cs, b)
            \cup Opt(cs, Lit(cs, b, "INC"), ".")
            \cup Opt(cs, Lit(cs, b, "CORP"), ".")
            \cup Lit(cs, b, "LLC")
            \cup Opt(cs, Lit(cs, Opt(cs, Lit(cs, b, "L"), "."), "P"), ".")
            \cup Opt(cs, Lit(cs, Opt(cs, Lit(cs, b, "S"), "."), "A"), ".")
            \cup Lit(cs, b, "GMBH")
            \cup LtdDot(cs, Spaces(cs, Opt(cs, Lit(cs, b, "PTY"), ".")))
            \cup LtdDot(cs, Spaces(cs, Opt(cs, Lit(cs, b, "CO"), ".")))
    IN  AtEnd(cs, Spaces(cs, Opt(cs, Spaces(cs, suffix), ".")))

\* /\s*\(SINGAPORE\)\s*/i, matched from position p
SINGAPORE(cs, p) == Spaces(cs, Lit(cs, Spaces(cs, {p}), "(SINGAPORE)"))

\* the separators of a result title; the en dash of the class [\|--] is
\* not a character of the titles here
SeparatorChars == { "|", "-" }

\* /\s*[\|--]\s*/, matched from position p
SEPARATOR(cs, p) == Spaces(cs, AnyOf(cs, Spaces(cs, {p}), SeparatorChars))

\* /\s*[\|--]\s*LinkedIn\s*$/i, matched from position p
LINKEDIN_SUFFIX(cs, p) ==
    AtEnd(cs, Spaces(cs, Lit(cs, SEPARATOR(cs, p), "LinkedIn")))

\* the patterns by name
Matches(pattern, cs, p) ==
    CASE pattern = "LEGAL_SUFFIXES" -> LEGAL_SUFFIXES(cs, p)
      [] pattern = "SINGAPORE" -> SINGAPORE(cs, p)
      [] pattern = "SEPARATOR" -> SEPARATOR(cs, p)
      [] pattern = "LINKEDIN_SUFFIX" -> LINKEDIN_SUFFIX(cs, p)

Least(S) == CHOOSE x \in S : \A y \in S : x <= y

Greatest(S) == CHOOSE x \in S : \A y \in S : y <= x

\* the positions at which a match of the pattern starts
MatchStarts(cs, pattern) ==
    {p \in 0..Len(cs) : Matches(pattern, cs, p) # {}}

\* String.prototype.replace with a pattern without the g flag: the leftmost
\* match is replaced. The quantifiers of the patterns here are greedy and
\* stand at the end of the pattern, so the match is the longest one.
replace(cs, pattern, by) ==
    LET starts == MatchStarts(cs, pattern)
    IN  IF starts = {} THEN cs
        ELSE LET from == Least(starts)
                 to   == Greatest(Matches(pattern, cs, from))
             IN  SubSeq(cs, 1, from) \o by \o SubSeq(cs, to + 1, Len(cs))

\* String.prototype.trim
trim(cs) ==
    LET keep == {p \in DOMAIN cs : ~ IsSpace(cs[p])}
    IN  IF keep = {} THEN << >> ELSE SubSeq(cs, Least(keep), Greatest(keep))

normalizeCompanyName(name) ==
    trim(replace(replace(name, "LEGAL_SUFFIXES", << >>),
                 "SINGAPORE", << " " >>))

\* split(/\s*[\|--]\s*/)[0]: the text before the leftmost separator
FirstPart(cs) ==
    LET starts == MatchStarts(cs, "SEPARATOR")
    IN  IF starts = {} THEN cs ELSE SubSeq(cs, 1, Least(starts))

\* split(/\s+/)
RECURSIVE SplitSpaces(_)
SplitSpaces(cs) ==
    LET at == {p \in DOMAIN cs : IsSpace(cs[p])}
    IN  IF at = {} THEN << cs >>
        ELSE LET from == Least(at) - 1
                 to   == Greatest(Spaces(cs, {from}))
             IN  << SubSeq(cs, 1, from) >>
                     \o SplitSpaces(SubSeq(cs, to + 1, Len(cs)))

\* String.prototype.replaceAll with a string pattern
RECURSIVE replaceAll(_, _, _)
replaceAll(cs, w, by) ==
    LET at == {p \in 0..(Len(cs) - Len(w)) :
                  SubSeq(cs, p + 1, p + Len(w)) = w}
    IN  IF at = {} THEN cs
        ELSE LET from == Least(at)
             IN  SubSeq(cs, 1, from) \o by
                     \o replaceAll(SubSeq(cs, from + Len(w) + 1, Len(cs)),
                                   w, by)

\* the contact name of a result title: its first part, lower-cased
contactNameOf(title) ==
    toLowerCase(trim(FirstPart(replace(title, "LINKEDIN_SUFFIX", << >>))))

\* for (const namePart of contactName.split(/\s+/)) ...
RECURSIVE RemoveNameParts(_, _)
RemoveNameParts(text, parts) ==
    IF parts = << >> THEN text
    ELSE RemoveNameParts(IF Len(Head(parts)) >= 3
                         THEN replaceAll(text, Head(parts), << " " >>)
                         ELSE text,
                         Tail(parts))

\* let text: title and snippet without the contact name
cleanText(title, snippet) ==
    LET contactName == contactNameOf(title)
        text == toLowerCase(title \o << " " >> \o snippet)
    IN  IF Len(contactName) >= 3
        THEN RemoveNameParts(text, SplitSpaces(contactName))
        ELSE text

skipWords ==
    { Chars(w) : w \in
        { "pte", "ltd", "the", "and", "of", "for", "group", "holdings",
          "services", "technology", "global", "international", "asia",
          "pacific", "capital", "management", "financial", "digital",
          "asset" } }

\* keywords.sort((a, b) => b.length - a.length), a stable sort
RECURSIVE InsertByLength(_, _)
InsertByLength(sorted, w) ==
    IF sorted = << >> THEN << w >>
    ELSE IF Len(Head(sorted)) >= Len(w)
         THEN << Head(sorted) >> \o InsertByLength(Tail(sorted), w)
         ELSE << w >> \o sorted

RECURSIVE SortByLength(_, _)
SortByLength(ws, acc) ==
    IF ws = << >> THEN acc
    ELSE SortByLength(Tail(ws), InsertByLength(acc, Head(ws)))

\* the significant keywords of a cleaned company name, longest first
sortedKeywords(clean) ==
    SortByLength(SelectSeq(SplitSpaces(clean),
                           LAMBDA w : Len(w) >= 3 /\ w \notin skipWords),
                 << >>)

\* sorted.some(kw => s.includes(kw)), or s.includes(clean) when every
\* word of the name is generic
MentionsKeyword(s, clean) ==
    LET sorted == sortedKeywords(clean)
    IN  IF Len(sorted) = 0 THEN includes(s, clean)
        ELSE \E k \in DOMAIN sorted : includes(s, sorted[k])

resultMentionsCompany(title, snippet, companyName) ==
    MentionsKeyword(cleanText(title, snippet),
                    toLowerCase(normalizeCompanyName(companyName)))

\* parsed.employer: << >> stands for null, << text >> for a string
NoEmployer == << >>

\* mutant: a contact without employer is rejected
verifyContactCompany_strict(parsed, targetCompanyName) ==
    /\ parsed.employer # NoEmployer
    /\ MentionsKeyword(toLowerCase(parsed.employer[1]),
                       toLowerCase(normalizeCompanyName(targetCompanyName)))

verifyContactCompany(parsed, targetCompanyName) ==
    IF parsed.employer = NoEmployer \/ parsed.employer[1] = << >>
    THEN TRUE
    ELSE MentionsKeyword(toLowerCase(parsed.employer[1]),
                         toLowerCase(normalizeCompanyName(targetCompanyName)))

(***************************************************************************)
(* The searches of a pipeline run: the loop of main (src/pipeline.js,      *)
(* src/unnamed/part_003) calls enrichCompany, enrich and enrichWithBrowser *)
(* (src/src/shared/config.js, lines 532-609) for one company after the     *)
(* other. webSearch is the only request to the search engine; connect,     *)
(* newPage and webSearch are the calls that can throw out of              *)
(* enrichWithBrowser (the two page scrapers catch their errors).           *)
(***************************************************************************)
\* a step of the browser session leaves the rest alone
SearchStep == UNCHANGED <<dvars, svars, pvars, fvars, cvars, hvars>>

SearchIdle ==
    /\ epc = "idle"
    /\ eidx = 0
    /\ linkedInUrl = ""
    /\ found = 0
    /\ searchLog = << >>

\* const SEARCH_DELAY = 3000, in milliseconds
SEARCH_DELAY == 3000

\* await webSearch(page, query): the request of one company
SearchEvent(i) == [ev |-> "search", entity |-> i, ms |-> 0]

\* await delay(SEARCH_DELAY)
PauseEvent(i) == [ev |-> "pause", entity |-> i, ms |-> SEARCH_DELAY]

\* enrichWithBrowser threw: finally closes the page, enrich catches the
\* error and returns no contacts, main saves and goes on with i + 1
Thrown ==
    /\ epc' = "loop"
    /\ eidx' = eidx + 1
    /\ UNCHANGED <<linkedInUrl, found>>

\* for (let i = 0; i < targets.length; i++): a company that is not skipped
LoopNext ==
    /\ SearchStep
    /\ epc = "loop"
    /\ epc' = IF eidx > MaxSearched THEN "done" ELSE "connect"
    /\ UNCHANGED <<eidx, linkedInUrl, found, searchLog>>

\* await connect(); await context.newPage()
BrowserConnect ==
    /\ SearchStep
    /\ epc = "connect"
    /\ \/ /\ epc' = "findCompanyLinkedIn"
          /\ linkedInUrl' = ""
          /\ found' = 0
          /\ UNCHANGED eidx
       \/ Thrown
    /\ UNCHANGED searchLog

\* 1. findCompanyLinkedIn: one search; a company page is among the
\* results or not, or webSearch throws (page.goto, page.evaluate)
FindCompanyLinkedIn ==
    /\ SearchStep
    /\ epc = "findCompanyLinkedIn"
    /\ searchLog' = Append(searchLog, SearchEvent(eidx))
    /\ \/ /\ linkedInUrl' \in {"", "li/company"}
          /\ epc' = "delay1"
          /\ UNCHANGED <<eidx, found>>
       \/ Thrown

\* await delay(SEARCH_DELAY) after findCompanyLinkedIn
DelayAfterLinkedIn ==
    /\ SearchStep
    /\ epc = "delay1"
    /\ searchLog' = Append(searchLog, PauseEvent(eidx))
    /\ epc' = IF linkedInUrl # "" THEN "scrapeLinkedInCompanyPage"
              ELSE "findComplianceContacts"
    /\ UNCHANGED <<eidx, linkedInUrl, found>>

\* 2. scrapeLinkedInCompanyPage (no search; it catches what it throws)
\* and the delay that follows it
ScrapeLinkedInCompanyPage ==
    /\ SearchStep
    /\ epc = "scrapeLinkedInCompanyPage"
    /\ searchLog' = Append(searchLog, PauseEvent(eidx))
    /\ epc' = "findComplianceContacts"
    /\ UNCHANGED <<eidx, linkedInUrl, found>>

\* 3. findComplianceContacts: the search for compliance roles
FindComplianceContacts ==
    /\ SearchStep
    /\ epc = "findComplianceContacts"
    /\ searchLog' = Append(searchLog, SearchEvent(eidx))
    /\ \/ /\ found' \in {0, 1}
          /\ epc' = IF found' = 0 THEN "broad" ELSE "delay3"
          /\ UNCHANGED <<eidx, linkedInUrl>>
       \/ Thrown

\* if (contacts.length === 0): await delay(SEARCH_DELAY) and the search
\* for management roles
FindBroadContacts ==
    /\ SearchStep
    /\ epc = "broad"
    /\ searchLog' = searchLog \o << PauseEvent(eidx), SearchEvent(eidx) >>
    /\ \/ /\ found' \in {0, 1}
          /\ epc' = "delay3"
          /\ UNCHANGED <<eidx, linkedInUrl>>
       \/ Thrown

\* await delay(SEARCH_DELAY) after findComplianceContacts
DelayAfterContacts ==
    /\ SearchStep
    /\ epc = "delay3"
    /\ searchLog' = Append(searchLog, PauseEvent(eidx))
    /\ epc' = "scrapeCompanyWebsite"
    /\ UNCHANGED <<eidx, linkedInUrl, found>>

\* 4. scrapeCompanyWebsite (no search; it catches what it throws), the
\* return of enrichWithBrowser, and the rest of the loop body
ScrapeCompanyWebsite ==
    /\ SearchStep
    /\ epc = "scrapeCompanyWebsite"
    /\ epc' = "loop"
    /\ eidx' = eidx + 1
    /\ UNCHANGED <<linkedInUrl, found, searchLog>>

(***************************************************************************)
(* scrapeAll, one category after the other: src/src/watcher/scraper.js,    *)
(* lines 127-144, and scrapeCategory, lines 23-42                          *)
(***************************************************************************)
\* a step of scrapeAll leaves the rest alone
ScrapeStep == UNCHANGED <<dvars, svars, pvars, fvars, evars, hvars>>

ScrapeIdle ==
    /\ cpc = "idle"
    /\ cidx = 0
    /\ allRows = << >>
    /\ fetchLog = << >>
    /\ scraped = << >>

\* How a call of scrapeCategory ends: the page with its rows or a page
\* without the table (parsePrintTable returns no row), or it throws: fetch
\* rejects, or the status of the response is not ok
CategoryOutcomes == {"ok", "no table", "fetch rejects", "HTTP 503"}

\* the rows scrapeCategory returns
RowsOf(category, outcome) ==
    IF outcome = "ok" THEN RegistryPage(category) ELSE << >>

\* await fetch(url, ...) of one category
Fetched(c, outcome) == [category |-> WATCHED_CATEGORIES[c], outcome |-> outcome]

\* try { rows = await scrapeCategory(...); allRows.push(...rows); the
\* pause of 2000 ms }
ScrapeCategoryReturns ==
    /\ ScrapeStep
    /\ cpc = "loop"
    /\ cidx <= Len(WATCHED_CATEGORIES)
    /\ \E outcome \in {"ok", "no table"} :
          /\ fetchLog' = Append(fetchLog, Fetched(cidx, outcome))
          /\ allRows' = allRows \o RowsOf(WATCHED_CATEGORIES[cidx], outcome)
    /\ cidx' = cidx + 1
    /\ UNCHANGED <<cpc, scraped>>

\* mutant: a failed category ends the loop
ScrapeCategoryThrows_abort ==
    /\ ScrapeStep
    /\ cpc = "loop"
    /\ cidx <= Len(WATCHED_CATEGORIES)
    /\ \E outcome \in {"fetch rejects", "HTTP 503"} :
          fetchLog' = Append(fetchLog, Fetched(cidx, outcome))
    /\ cidx' = Len(WATCHED_CATEGORIES) + 1
    /\ UNCHANGED <<cpc, allRows, scraped>>

\* scrapeCategory throws: catch (err) { console.error(...) } and the loop
\* goes on with the next category
ScrapeCategoryThrows ==
    /\ ScrapeStep
    /\ cpc = "loop"
    /\ cidx <= Len(WATCHED_CATEGORIES)
    /\ \E outcome \in {"fetch rejects", "HTTP 503"} :
          fetchLog' = Append(fetchLog, Fetched(cidx, outcome))
    /\ cidx' = cidx + 1
    /\ UNCHANGED <<cpc, allRows, scraped>>

\* const merged = mergeRows(allRows); return merged
ScrapeReturn ==
    /\ ScrapeStep
    /\ cpc = "loop"
    /\ cidx > Len(WATCHED_CATEGORIES)
    /\ scraped' = mergeRows(allRows)
    /\ cpc' = "done"
    /\ UNCHANGED <<cidx, allRows, fetchLog>>

(***************************************************************************)
(* The watcher and the pipeline on one data directory: cron starts a       *)
(* watcher run (src/src/watcher/index.js main) or a pipeline run in diff   *)
(* mode (src/pipeline.js main without --all and --company), one process    *)
(* at a time                                                               *)
(***************************************************************************)
\* a watcher run from its start to its exit, none of its steps cut short:
\* scrapeAll, exit(1) when nothing was scraped, else loadLatestSnapshot,
\* saveSnapshot, the diff and the report
WatcherRun ==
    /\ UNCHANGED <<dvars, pvars, fvars, evars, cvars, hvars>>
    /\ wpc \in {"idle", "exit"}
    /\ ppc \in {"idle", "exit"}
    /\ runs < MaxRuns
    /\ runs' = runs + 1
    /\ \E outcome \in FetchOutcomes :
          LET insts == scrapeAll(outcome)
              now   == clock + ScrapeSeconds(outcome)
              prev  == loadLatestSnapshot
              d     == IF prev.kind = "snapshot"
                       THEN diffSnapshots(insts, prev.data.institutions)
                       ELSE [added |-> insts, removed |-> << >>]
          IN  /\ clock' = now
              /\ IF NothingScraped(insts) \/ prev.kind = "throws"
                 THEN /\ exitCode' = 1
                      /\ UNCHANGED <<files, lastWritten, report,
                                     reportWrites, lastSaved>>
                 ELSE /\ exitCode' = 0
                      /\ files' = WriteFile(files, Stamp(now),
                                     JSONstringify(SnapshotData(insts, now)))
                      /\ lastWritten' = Stamp(now)
                      /\ lastSaved' = [kind |-> "saved", file |-> Stamp(now),
                                       x |-> insts]
                      /\ report' = [added |-> d.added, removed |-> d.removed,
                                    count |-> Len(insts)]
                      /\ reportWrites' = reportWrites + 1
    /\ wpc' = "exit"
    /\ wstart' = loadLatestSnapshot
    /\ UNCHANGED <<institutions, wprevious, wfile, wtext>>

\* the names of the companies a run in diff mode selects
SelectedNames ==
    LET snapshot == loadLatestSnapshot
        prev     == loadPreviousSnapshot
    IN  IF snapshot.kind # "snapshot" \/ prev.kind = "throws" THEN {}
        ELSE {i.name : i \in Range(SelectTargets(snapshot.data, prev, NoArgs))}

\* a pipeline run in diff mode starts
PipeStartDiff ==
    /\ PipeStartWith(NoArgs)
    /\ selectLog' = Append(selectLog,
                           [snapshots |-> DOMAIN files,
                            selected |-> SelectedNames])

\* no function call is specified
NoReturn == << >>

FunIdle ==
    /\ farg = << >>
    /\ fret = NoReturn
    /\ fpc = "idle"

(***************************************************************************)
(* Specifications                                                          *)
(***************************************************************************)
InitDiff ==
    /\ current \in SeqsUpTo(DiffEntities, MaxLen)
    /\ previous \in SeqsUpTo(DiffEntities, MaxLen)
    /\ diff = NoDiff
    /\ dpc = "call"
    /\ StoreIdle
    /\ PipeIdle
    /\ SearchIdle
    /\ ScrapeIdle
    /\ selectLog = << >>
    /\ FunIdle

CallDiff ==
    /\ dpc = "call"
    /\ diff' = diffSnapshots(current, previous)
    /\ dpc' = "done"
    /\ UNCHANGED <<current, previous>>
    /\ PureStep

NextDiff == CallDiff

SpecDiff == InitDiff /\ [][NextDiff]_vars

InitStore ==
    /\ StoreIdle /\ DiffIdle /\ PipeIdle /\ FunIdle /\ SearchIdle /\ ScrapeIdle
    /\ selectLog = << >>

NextStore ==
    \/ WatcherScrape
    \/ WatcherHaltEmpty
    \/ WatcherLoad
    \/ WatcherSaveOpen
    \/ WatcherSaveWrite
    \/ WatcherDiffReport
    \/ WatcherCrash
    \/ Tick
    \/ ClockSetBack

SpecStore == InitStore /\ [][NextStore]_vars

\* the stores the watcher leaves behind: none, one snapshot, or a
\* snapshot without Beta followed by one with it
SnapshotText(outcome, t) == JSONstringify(SnapshotData(scrapeAll(outcome), t))

PipeStores ==
    LET all == [c \in DOMAIN WATCHED_CATEGORIES |-> "ok"]
        cms == [c \in DOMAIN WATCHED_CATEGORIES |->
                   IF c = 1 THEN "ok" ELSE "fail"]
    IN  { << >>,
          WriteFile(<< >>, Stamp(9), SnapshotText(all, 9)),
          WriteFile(WriteFile(<< >>, Stamp(9), SnapshotText(cms, 9)),
                    Stamp(11), SnapshotText(all, 11)) }

InitPipe ==
    /\ DiffIdle
    /\ files \in PipeStores
    /\ clock = 11
    /\ lastWritten = (IF DOMAIN files = {} THEN NoFile
                      ELSE LatestFile(DOMAIN files))
    /\ report = NoReport
    /\ reportWrites = 0
    /\ wpc = "idle"
    /\ institutions = << >>
    /\ wprevious = NoLoad
    /\ wfile = NoFile
    /\ wtext = << >>
    /\ wstart = NoLoad
    /\ exitCode = -1
    /\ runs = 0
    /\ lastSaved = NoSave
    /\ PipeIdle
    /\ SearchIdle
    /\ ScrapeIdle
    /\ selectLog = << >>
    /\ FunIdle

NextPipe ==
    \/ PipeStart
    \/ PipeSkip
    \/ PipeEnrich
    \/ PipeSaveOpen
    \/ PipeSaveWrite
    \/ PipeDedup
    \/ PipeCrash

SpecPipe == InitPipe /\ [][NextPipe]_vars

\* The cross-company dedup pass as a function of enrichedMap. The map holds
\* the records enrichCompany builds, one per company, in insertion order.
\* enrichWithBrowser makes the contacts of one company unique by name only:
\* two results with one profile URL and two spellings of the name are both
\* kept. Names and titles come in any letter case.
DedupOutcomes ==
    { o \in BrowserOutcomes : o.kind = "returns" }
    \cup
    { [kind |-> "returns", message |-> "",
       contacts |-> << Contact("Jane", "CCO", "li/jane", "ddg-serp") >>,
       linkedInUrl |-> ""],
      [kind |-> "returns", message |-> "",
       contacts |-> << Contact("Jane", "CCO", "li/jane", "ddg-serp"),
                       Contact("J Tan", "MLRO", "li/jane", "ddg-serp") >>,
       linkedInUrl |-> ""],
      [kind |-> "returns", message |-> "",
       contacts |-> << Contact("SAM", "HEAD OF RISK", "",
                               "company-website") >>,
       linkedInUrl |-> ""] }

EntityNames == << "Alpha", "Beta", "Gamma", "Delta", "Epsilon" >>

DedupMaps ==
    UNION { { [k \in 1..n |->
                 enrichCompany([name |-> EntityNames[k],
                                licenseTypes |->
                                    << "Major Payment Institution" >>],
                               f[k])] :
              f \in [1..n -> DedupOutcomes] } : n \in 1..MaxEntities }

FunStep == UNCHANGED <<dvars, svars, pvars, evars, cvars, hvars>>

InitDedup ==
    /\ DiffIdle
    /\ StoreIdle
    /\ PipeIdle
    /\ SearchIdle
    /\ ScrapeIdle
    /\ selectLog = << >>
    /\ farg \in DedupMaps
    /\ fret = NoReturn
    /\ fpc = "call"

CallDedup ==
    /\ fpc = "call"
    /\ fret' = CrossCompanyDedup(farg)
    /\ fpc' = "done"
    /\ UNCHANGED farg
    /\ FunStep

NextDedup == CallDedup

SpecDedup == InitDedup /\ [][NextDedup]_vars

\* normalizeCompanyName over registry names: words and legal suffixes,
\* separated by one space
NameWords ==
    { "ARIANA", "PTE.", "LTD.", "INC", "(SINGAPORE)", "PRIVATE", "LIMITED",
      "Corp.", "ZINC" }

RECURSIVE JoinWords(_)
JoinWords(ws) ==
    IF Len(ws) = 1 THEN ws[1]
    ELSE ws[1] \o " " \o JoinWords(Tail(ws))

CompanyNames ==
    {JoinWords(ws) : ws \in SeqsUpTo(NameWords, MaxWords) \ {<< >>}}

InitNormalize ==
    /\ DiffIdle
    /\ StoreIdle
    /\ PipeIdle
    /\ SearchIdle
    /\ ScrapeIdle
    /\ selectLog = << >>
    /\ farg \in CompanyNames
    /\ fret = NoReturn
    /\ fpc = "call"

CallNormalize ==
    /\ fpc = "call"
    /\ fret' = << Str(normalizeCompanyName(Chars(farg))) >>
    /\ fpc' = "done"
    /\ UNCHANGED farg
    /\ FunStep

NextNormalize == CallNormalize

SpecNormalize == InitNormalize /\ [][NextNormalize]_vars

\* resultMentionsCompany over search results in the formats of
\* parseLinkedInResult: "Name - Title - Company | LinkedIn" and
\* "Name | LinkedIn", with a snippet that may name the employer
PersonNames == { "Ariana Lobo", "Ari Lobo", "John Smith" }

Employers ==
    { "XYZ Corp", "Ariana Investment", "Ariana Capital", "Investment House",
      "Capital Management" }

TargetCompanies ==
    { "ARIANA INVESTMENT PTE. LTD.", "ARIANA CAPITAL PTE. LTD.",
      "CAPITAL MANAGEMENT PTE. LTD." }

SearchResults ==
    { [title |-> n \o " - CCO - " \o e \o " | LinkedIn", snippet |-> sn] :
          n \in PersonNames, e \in Employers,
          sn \in { "", "Works at XYZ Corp", "Works at Ariana Capital" } }
    \cup
    { [title |-> n \o " | LinkedIn", snippet |-> sn \o e] :
          n \in PersonNames, e \in Employers,
          sn \in { "Chief Compliance Officer at " } }

InitMentions ==
    /\ DiffIdle
    /\ StoreIdle
    /\ PipeIdle
    /\ SearchIdle
    /\ ScrapeIdle
    /\ selectLog = << >>
    /\ farg \in { [title |-> r.title, snippet |-> r.snippet,
                   companyName |-> c] :
                      r \in SearchResults, c \in TargetCompanies }
    /\ fret = NoReturn
    /\ fpc = "call"

CallMentions ==
    /\ fpc = "call"
    /\ fret' = << resultMentionsCompany(Chars(farg.title),
                                        Chars(farg.snippet),
                                        Chars(farg.companyName)) >>
    /\ fpc' = "done"
    /\ UNCHANGED farg
    /\ FunStep

NextMentions == CallMentions

SpecMentions == InitMentions /\ [][NextMentions]_vars

\* verifyContactCompany over the contacts parseLinkedInResult returns: the
\* employer is null or the text of the third part of the title or of the
\* snippet, never the empty string
ParsedEmployers ==
    { NoEmployer }
    \cup { << e >> : e \in Employers }
    \cup { << "Apollo Management" >>, << "Apollo Global Management" >>,
           << "JPMorgan Chase" >>, << "ARIANA INVESTMENT" >>,
           << "Capital Mgmt" >> }

VerifyTargets ==
    TargetCompanies
    \cup { "APOLLO MANAGEMENT INTERNATIONAL PTE LTD",
           "APOLLO MANAGEMENT PTE LTD",
           "GLOBAL ASSET MANAGEMENT LIMITED" }

InitVerify ==
    /\ DiffIdle
    /\ StoreIdle
    /\ PipeIdle
    /\ SearchIdle
    /\ ScrapeIdle
    /\ selectLog = << >>
    /\ farg \in { [parsed |-> [name |-> "John", title |-> "CCO",
                               employer |-> e],
                   targetCompanyName |-> c] :
                      e \in ParsedEmployers, c \in VerifyTargets }
    /\ fret = NoReturn
    /\ fpc = "call"

CallVerify ==
    /\ fpc = "call"
    /\ fret' = << verifyContactCompany(
                     [farg.parsed EXCEPT
                        !.employer = IF @ = NoEmployer THEN NoEmployer
                                     ELSE << Chars(@[1]) >>],
                     Chars(farg.targetCompanyName)) >>
    /\ fpc' = "done"
    /\ UNCHANGED farg
    /\ FunStep

NextVerify == CallVerify

SpecVerify == InitVerify /\ [][NextVerify]_vars

\* rankContacts over the contacts enrichWithBrowser returns: titles of the
\* seniority table, in pairs of equal priority, and titles outside it
RankContacts ==
    { Contact("High", "CCO", "li/high", "ddg-serp"),
      Contact("Chief", "Chief Compliance Officer", "li/chief", "ddg-serp"),
      Contact("MedHigh", "MLRO", "li/medhigh", "ddg-serp"),
      Contact("Mid", "Head of Compliance", "li/mid", "ddg-serp"),
      Contact("Low", "Software Engineer", "li/low", "ddg-serp-broad"),
      Contact("Sam", "Head of Risk", "", "company-website") }

InitRank ==
    /\ DiffIdle
    /\ StoreIdle
    /\ PipeIdle
    /\ SearchIdle
    /\ ScrapeIdle
    /\ selectLog = << >>
    /\ farg \in SeqsUpTo(RankContacts, MaxContacts)
    /\ fret = NoReturn
    /\ fpc = "call"

CallRank ==
    /\ fpc = "call"
    /\ fret' = << rankContacts(farg) >>
    /\ farg' = contactsAfterRank(farg)
    /\ fpc' = "done"
    /\ FunStep

NextRank == CallRank

SpecRank == InitRank /\ [][NextRank]_vars

\* rankContacts over one contact: titles made of the keys of the seniority
\* table, as written and in another case, and of other titles (one of
\* them holds the letters of a key inside a word), joined by " & "; and
\* the contact without a title of the tests
TitleParts ==
    { "Chief Compliance Officer", "CCO", "MLRO",
      "Money Laundering Reporting Officer", "Head of Compliance",
      "VP Compliance", "Vice President Compliance", "Director of Compliance",
      "Compliance Director", "chief compliance officer", "mlro",
      "HEAD OF COMPLIANCE", "Software Engineer", "Account Manager" }

RECURSIVE JoinTitle(_)
JoinTitle(ps) ==
    IF ps = << >> THEN ""
    ELSE IF Len(ps) = 1 THEN ps[1]
    ELSE ps[1] \o " & " \o JoinTitle(Tail(ps))

TitledContacts ==
    {[name |-> "Alice", title |-> JoinTitle(ps)] :
        ps \in SeqsUpTo(TitleParts, MaxTitleParts)}
    \cup {[name |-> "NoTitle"]}

InitPriority ==
    /\ DiffIdle
    /\ StoreIdle
    /\ PipeIdle
    /\ SearchIdle
    /\ ScrapeIdle
    /\ selectLog = << >>
    /\ farg \in {<<c>> : c \in TitledContacts}
    /\ fret = NoReturn
    /\ fpc = "call"

CallPriority ==
    /\ fpc = "call"
    /\ fret' = << rankContacts(farg) >>
    /\ farg' = contactsAfterRank(farg)
    /\ fpc' = "done"
    /\ FunStep

NextPriority == CallPriority

SpecPriority == InitPriority /\ [][NextPriority]_vars

\* a pipeline run that enriches MaxSearched companies, none skipped
InitSearch ==
    /\ DiffIdle
    /\ StoreIdle
    /\ PipeIdle
    /\ FunIdle
    /\ ScrapeIdle
    /\ selectLog = << >>
    /\ epc = "loop"
    /\ eidx = 1
    /\ linkedInUrl = ""
    /\ found = 0
    /\ searchLog = << >>

NextSearch ==
    \/ LoopNext
    \/ BrowserConnect
    \/ FindCompanyLinkedIn
    \/ DelayAfterLinkedIn
    \/ ScrapeLinkedInCompanyPage
    \/ FindComplianceContacts
    \/ FindBroadContacts
    \/ DelayAfterContacts
    \/ ScrapeCompanyWebsite

SpecSearch == InitSearch /\ [][NextSearch]_vars

\* mergeRows over the rows parsePrintTable returns: two organisations,
\* rows with and without a licence type and an activity, and a second
\* address for one organisation
MergeRowsIn ==
    { Row("Alpha", "a1", "w1", "CMS", "Dealing"),
      Row("Alpha", "a1", "w1", "CMS", "Fund Management"),
      Row("Alpha", "a2", "w1", "MPI", "Transfer"),
      Row("Alpha", "a1", "w1", "", ""),
      Row("Alpha", "a1", "w1", "", "Transfer"),
      Row("Beta", "b1", "", "CMS", "Dealing"),
      Row("Beta", "b1", "", "MPI", "Transfer"),
      Row("Beta", "b1", "", "MPI", ""),
      Row("Beta", "b1", "", "", "") }

InitMerge ==
    /\ DiffIdle
    /\ StoreIdle
    /\ PipeIdle
    /\ SearchIdle
    /\ ScrapeIdle
    /\ selectLog = << >>
    /\ farg \in SeqsUpTo(MergeRowsIn, MaxRows)
    /\ fret = NoReturn
    /\ fpc = "call"

CallMerge ==
    /\ fpc = "call"
    /\ fret' = << mergeRows(farg) >>
    /\ fpc' = "done"
    /\ UNCHANGED farg
    /\ FunStep

NextMerge == CallMerge

SpecMerge == InitMerge /\ [][NextMerge]_vars

\* calculateConfidence over prospects: the licence types of the mapping
\* and others, a contact with or without email and title or no contact,
\* a company with or without name and website or no company
ProspectLicences == REGULATORY_HOOKS \cup {"Unknown", "Exempt Entity"}

ProspectContacts ==
    {[name |-> "Jane", title |-> t, email |-> e] :
        t \in {"", "CCO", "Head of Risk", "AML Analyst",
               "Chief Compliance Officer"},
        e \in {"", "jane@example.com"}}

ProspectCompanies ==
    {[name |-> n, website |-> w] : n \in {"", "Alpha"}, w \in {"", "alpha.sg"}}

Prospects(contacts, companies) ==
    {[company |-> c, contact |-> k, licenseType |-> l] :
        c \in companies, k \in contacts, l \in ProspectLicences}

InitConfidence ==
    /\ DiffIdle
    /\ StoreIdle
    /\ PipeIdle
    /\ SearchIdle
    /\ ScrapeIdle
    /\ selectLog = << >>
    /\ farg \in Prospects(ProspectContacts \cup {Undefined},
                          ProspectCompanies \cup {Undefined})
    /\ fret = NoReturn
    /\ fpc = "call"

CallConfidence ==
    /\ fpc = "call"
    /\ fret' = << calculateConfidence(farg) >>
    /\ fpc' = "done"
    /\ UNCHANGED farg
    /\ FunStep

NextConfidence == CallConfidence

SpecConfidence == InitConfidence /\ [][NextConfidence]_vars

\* createSequence over prospects with a contact and a company (it reads
\* prospect.contact.name and prospect.company.name)
InitSequence ==
    /\ DiffIdle
    /\ StoreIdle
    /\ PipeIdle
    /\ SearchIdle
    /\ ScrapeIdle
    /\ selectLog = << >>
    /\ farg \in Prospects(ProspectContacts, ProspectCompanies)
    /\ fret = NoReturn
    /\ fpc = "call"

CallSequence ==
    /\ fpc = "call"
    /\ fret' = << createSequence(farg) >>
    /\ fpc' = "done"
    /\ UNCHANGED farg
    /\ FunStep

NextSequence == CallSequence

SpecSequence == InitSequence /\ [][NextSequence]_vars

\* one call of scrapeAll
InitScrape ==
    /\ DiffIdle
    /\ StoreIdle
    /\ PipeIdle
    /\ SearchIdle
    /\ FunIdle
    /\ selectLog = << >>
    /\ cpc = "loop"
    /\ cidx = 1
    /\ allRows = << >>
    /\ fetchLog = << >>
    /\ scraped = << >>

NextScrape ==
    \/ ScrapeCategoryReturns
    \/ ScrapeCategoryThrows
    \/ ScrapeReturn

SpecScrape == InitScrape /\ [][NextScrape]_vars

\* watcher runs and pipeline runs in diff mode, in any order
InitSystem == InitStore

NextSystem ==
    \/ WatcherRun
    \/ PipeStartDiff
    \/ PipeSkip
    \/ PipeEnrich
    \/ PipeSaveOpen
    \/ PipeSaveWrite
    \/ PipeDedup

SpecSystem == InitSystem /\ [][NextSystem]_vars

(***************************************************************************)
(* Claims on diffSnapshots                                                 *)
(***************************************************************************)
\* positions of xs whose name occurs nowhere in ys
AbsentIdx(xs, ys) ==
    {i \in DOMAIN xs : \A j \in DOMAIN ys : ys[j].name # xs[i].name}

\* the k-th smallest member of a finite set of numbers
Kth(S, k) == CHOOSE x \in S : Cardinality({y \in S : y < x}) = k - 1

\* the elements of xs at the positions S, in increasing position
PickInOrder(xs, S) == [k \in 1..Cardinality(S) |-> xs[Kth(S, k)]]

\* C2: added is exactly the entities of current whose key (the canonical
\* name) is absent from previous, in current's order; removed is exactly
\* the entities of previous whose key is absent from current, in previous'
\* order; no entity whose key is on both sides is in either list.
C2_DiffExact ==
    dpc = "done" =>
        /\ diff.added = PickInOrder(current, AbsentIdx(current, previous))
        /\ diff.removed = PickInOrder(previous, AbsentIdx(previous, current))
        /\ \A e \in Range(diff.added) \cup Range(diff.removed) :
              ~ (/\ \E i \in DOMAIN current : current[i].name = e.name
                 /\ \E j \in DOMAIN previous : previous[j].name = e.name)

\* C2 witness: two added entities kept in current's order, and one removal
C2_Witness ==
    /\ dpc = "done"
    /\ Len(diff.added) = 2
    /\ diff.added[1].name # diff.added[2].name
    /\ diff.added = current
    /\ Len(diff.removed) = 1

\* C3: an entity whose registry identifier is present on both sides is
\* neither added nor removed, even when its name differs between the lists.
C3_RegistryIdIsKey ==
    dpc = "done" =>
        \A i \in DOMAIN current, j \in DOMAIN previous :
            (current[i].fid # NoFid /\ current[i].fid = previous[j].fid) =>
                /\ current[i] \notin Range(diff.added)
                /\ previous[j] \notin Range(diff.removed)

\* C4: two lists with equal key sets give an empty diff, whatever the other
\* fields hold.
C4_EqualKeysEmptyDiff ==
    (/\ dpc = "done"
     /\ {current[i].name : i \in DOMAIN current}
          = {previous[j].name : j \in DOMAIN previous}) =>
        /\ diff.added = <<>>
        /\ diff.removed = <<>>

\* C4 witness: same keys, different address, and the diff was computed
C4_Witness ==
    /\ dpc = "done"
    /\ Len(current) = 2
    /\ {current[i].name : i \in DOMAIN current}
          = {previous[j].name : j \in DOMAIN previous}
    /\ \E i \in DOMAIN current, j \in DOMAIN previous :
          /\ current[i].name = previous[j].name
          /\ current[i].address # previous[j].address
    /\ diff.added = <<>>

(***************************************************************************)
(* Claims on the snapshot store and the watcher run                        *)
(***************************************************************************)
\* C1: a saveSnapshot call creates exactly one new record, and a record
\* once saved is never overwritten or deleted, whatever the timing of the
\* calls.
C1_AppendOnly ==
    [][ /\ (wpc = "loaded" /\ wpc' = "writing") =>
              Cardinality(DOMAIN files') = Cardinality(DOMAIN files) + 1
        /\ \A f \in DOMAIN files :
              JSONparse(files[f]).ok =>
                  (f \in DOMAIN files' /\ files'[f] = files[f]) ]_vars

\* C5: loadLatestSnapshot never selects a record whose content is
\* partially written, a crash in the middle of the write included.
C5_NeverLoadsPartial == wprevious.kind # "throws"

\* C6: a run whose scrape yields zero entities does nothing but exit with
\* code 1: no step of it changes the stored snapshots or writes a report.
C6_EmptyScrapeHalts ==
    [][ /\ (wpc' = "scraped" /\ Len(institutions') = 0) =>
              (files' = files /\ reportWrites' = reportWrites)
        /\ (wpc = "scraped" /\ Len(institutions) = 0) =>
              /\ files' = files
              /\ reportWrites' = reportWrites
              /\ report' = report
              /\ \/ wpc' = "scraped"
                 \/ wpc' = "crashed"
                 \/ wpc' = "exit" /\ exitCode' = 1 ]_vars

\* C6 witness: a run over a non-empty store has halted on an empty scrape
C6_Witness ==
    /\ wpc = "exit"
    /\ exitCode = 1
    /\ institutions = << >>
    /\ DOMAIN files # {}
    /\ reportWrites = 1

\* the store has not changed since the watcher's loadLatestSnapshot call
JustLoaded ==
    \/ wpc = "loaded"
    \/ wpc = "exit" /\ wprevious.kind = "throws"

\* C7: loadLatestSnapshot returns null exactly when the store is empty,
\* and otherwise selects the record whose file name is lexically greatest
\* and returns what that record holds.
C7_LatestIsLexMax ==
    JustLoaded =>
        /\ (wprevious.kind = "null") <=> (DOMAIN files = {})
        /\ DOMAIN files # {} =>
              /\ wprevious.file \in DOMAIN files
              /\ \A g \in DOMAIN files :
                    g = wprevious.file \/ LexLess(g, wprevious.file)
              /\ wprevious.kind = "snapshot" =>
                    JSONstringify(wprevious.data) = files[wprevious.file]

\* C7 witness: the record returned is not the one written last
C7_Witness ==
    /\ wpc = "loaded"
    /\ wprevious.kind = "snapshot"
    /\ Cardinality(DOMAIN files) = 2
    /\ wprevious.file # lastWritten

\* C8: loadLatestSnapshot right after saveSnapshot(X), with no later-named
\* record in the store, returns count = Len(X) and institutions = X.
C8_RoundTrip ==
    (/\ JustLoaded
     /\ lastSaved.kind = "saved"
     /\ \A g \in DOMAIN files : ~ LexLess(lastSaved.file, g)) =>
        /\ wprevious.kind = "snapshot"
        /\ wprevious.data.count = Len(lastSaved.x)
        /\ wprevious.data.institutions = lastSaved.x

\* C8 witness: a list of two entities, one with two licence types, came
\* back from the store
C8_Witness ==
    /\ wpc = "loaded"
    /\ lastSaved.kind = "saved"
    /\ \A g \in DOMAIN files : ~ LexLess(lastSaved.file, g)
    /\ Len(lastSaved.x) = 2
    /\ Len(lastSaved.x[1].licenseTypes) = 2
    /\ wprevious.data.institutions = lastSaved.x

(***************************************************************************)
(* Claims on the pipeline run                                              *)
(***************************************************************************)
\* the companies with a record in the persisted enrichment state, as the
\* next run reads it
PersistedCompanies ==
    {ExistingEnrichment[k].company : k \in DOMAIN ExistingEnrichment}

\* C9: after a crash of the pipeline at any point of its loop, a write of
\* the results file included, the persisted enrichment state read by the
\* next run still holds the result of every entity whose processing was
\* completed before the crash, in this run or in an earlier one.
C9_CompletedSurviveCrash ==
    ppc = "crashed" => completed \subseteq PersistedCompanies

\* C10: between two companies of the loop, every entity whose enrichment
\* threw in this run has a persisted record with status 'failed' and the
\* error message attached.
C10_ThrowRecordedFailed ==
    ppc = "loop" =>
        \A k \in DOMAIN enrichLog :
            enrichLog[k].kind = "throws" =>
                \E j \in DOMAIN ExistingEnrichment :
                    LET r == ExistingEnrichment[j]
                    IN  /\ r.company = enrichLog[k].company
                        /\ r.status = "failed"
                        /\ "error" \in DOMAIN r
                        /\ r.error = enrichLog[k].message

(***************************************************************************)
(* Claims on the skip logic and the cross-company dedup pass               *)
(***************************************************************************)
\* the persisted records of a company
PersistedRecords(name) ==
    {ExistingEnrichment[j] : j \in {k \in DOMAIN ExistingEnrichment :
                                       ExistingEnrichment[k].company = name}}

\* C11: a company persisted as 'enriched' is enriched again only by a run
\* started with --force, one persisted as 'no_contacts' only by a run
\* started with --retry or --force, and the persisted record of a company
\* the run skipped is the same at the end of the run as when it was skipped.
C11_SkipUnlessForced ==
    /\ ppc = "saveE" =>
          \A r \in PersistedRecords(targets[pidx].name) :
              /\ r.status = "enriched" => pargs.force
              /\ r.status = "no_contacts" => pargs.force \/ pargs.retry
    /\ ppc = "exit" /\ pexit = 0 =>
          \A k \in DOMAIN skipLog :
              \E j \in DOMAIN ExistingEnrichment :
                  ExistingEnrichment[j] = skipLog[k]

\* The key of a contact, as the dedup pass is described: the profile URL
\* when there is one, the lower-cased name and title otherwise.
KeyOf(c) ==
    IF c.linkedInUrl # "" THEN << "url", c.linkedInUrl >>
    ELSE << "name|title", toLowerCase(Chars(c.name)),
            toLowerCase(Chars(c.title)) >>

\* the entities of map m whose contact list holds key
Holders(m, key) ==
    {i \in DOMAIN m : \E c \in DOMAIN m[i].contacts :
                          KeyOf(m[i].contacts[c]) = key}

KeysOf(m) ==
    UNION {{KeyOf(m[i].contacts[c]) : c \in DOMAIN m[i].contacts} :
              i \in DOMAIN m}

FirstOf(S) == CHOOSE i \in S : \A j \in S : i <= j

IsFlagged(c) == "lowConfidence" \in DOMAIN c /\ c.lowConfidence

\* C12: after the pass, for every key held by two or more entities, the
\* contacts with that key are unflagged in the first-seen entity and carry
\* lowConfidence = true and duplicateOf = the first-seen entity's name in
\* every later entity.
C12_FirstKeptLaterFlagged ==
    fpc = "done" =>
        \A key \in KeysOf(farg) :
            LET holders == Holders(farg, key)
                first   == FirstOf(holders)
            IN  Cardinality(holders) >= 2 =>
                    \A i \in holders :
                        \A c \in DOMAIN farg[i].contacts :
                            KeyOf(farg[i].contacts[c]) = key =>
                                LET after == fret.map[i].contacts[c]
                                IN  IF i = first
                                    THEN ~ IsFlagged(after)
                                    ELSE /\ IsFlagged(after)
                                         /\ after.duplicateOf =
                                                farg[first].company

\* C13: after the pass a contact is flagged only if its key is held by
\* another entity too, and its duplicateOf is not the entity that holds it.
C13_FlaggedOnlyAcrossEntities ==
    fpc = "done" =>
        \A i \in DOMAIN fret.map :
            \A c \in DOMAIN fret.map[i].contacts :
                LET after == fret.map[i].contacts[c]
                IN  IsFlagged(after) =>
                        /\ Cardinality(Holders(farg, KeyOf(after))) >= 2
                        /\ after.duplicateOf # fret.map[i].company

\* a record or contact without the fields the pass may write
Without(r, fields) == [f \in DOMAIN r \ fields |-> r[f]]

\* C14: the pass keeps the entity records and their order, and in every
\* contact list the length, the contacts and their order; a contact differs
\* from what it was in lowConfidence and duplicateOf only.
C14_DedupKeepsLists ==
    fpc = "done" =>
        /\ Len(fret.map) = Len(farg)
        /\ \A i \in DOMAIN farg :
              LET before == farg[i]
                  after  == fret.map[i]
              IN  /\ Without(after, {"contacts"}) = Without(before, {"contacts"})
                  /\ Len(after.contacts) = Len(before.contacts)
                  /\ \A c \in DOMAIN before.contacts :
                        /\ Without(after.contacts[c],
                                   {"lowConfidence", "duplicateOf"})
                              = before.contacts[c]
                        /\ ~ IsFlagged(after.contacts[c]) =>
                              after.contacts[c] = before.contacts[c]

\* a pass that flagged a contact of a later entity of two or more
C14_Witness ==
    /\ fpc = "done"
    /\ fret.dupCount > 0
    /\ \E i \in DOMAIN fret.map :
          /\ i > 1
          /\ Len(fret.map[i].contacts) > 1
          /\ \E c \in DOMAIN fret.map[i].contacts :
                IsFlagged(fret.map[i].contacts[c])

(***************************************************************************)
(* Claims on company names and search results                              *)
(***************************************************************************)
\* C15: normalizeCompanyName applied to its own result returns it unchanged.
C15_NormalizeIdempotent ==
    fpc = "done" =>
        Str(normalizeCompanyName(Chars(fret[1]))) = fret[1]

\* the words of the name of the call
NameTokens ==
    LET parts == SplitSpaces(Chars(farg))
    IN  [k \in DOMAIN parts |-> Str(parts[k])]

\* a word in lower case, without the full stop that may end it
Bare(w) ==
    LET cs == toLowerCase(Chars(w))
    IN  IF cs # << >> /\ cs[Len(cs)] = "."
        THEN Str(SubSeq(cs, 1, Len(cs) - 1)) ELSE Str(cs)

\* the legal-entity suffixes of one word and of two words
IsSuffixWord(w) ==
    Bare(w) \in {"limited", "ltd", "inc", "corp", "llc", "lp", "l.p", "sa",
                 "s.a", "gmbh"}

IsSuffixPair(v, w) ==
    \/ Bare(v) \in {"pte", "pty", "co"} /\ Bare(w) = "ltd"
    \/ Str(toLowerCase(Chars(v))) = "private" /\ Bare(w) = "limited"

\* how many words at the end of the name are its legal-entity suffix
SuffixWords(ws) ==
    IF Len(ws) >= 2 /\ IsSuffixPair(ws[Len(ws) - 1], ws[Len(ws)]) THEN 2
    ELSE IF IsSuffixWord(ws[Len(ws)]) THEN 1
    ELSE 0

IsMarker(w) == Str(toLowerCase(Chars(w))) = "(singapore)"

\* the words without the one at position k
Except(ws, k) == SubSeq(ws, 1, k - 1) \o SubSeq(ws, k + 1, Len(ws))

\* the name without the suffix that ends it and without its marker (the
\* first one, should it have several), its words separated by one space
Normalized(ws) ==
    LET core    == SubSeq(ws, 1, Len(ws) - SuffixWords(ws))
        markers == {k \in DOMAIN core : IsMarker(core[k])}
        kept    == IF markers = {} THEN core ELSE Except(core, Least(markers))
    IN  IF kept = << >> THEN "" ELSE JoinWords(kept)

\* C24: normalizeCompanyName removes a legal-entity suffix only where it
\* ends the name and the "(SINGAPORE)" marker wherever it stands, and
\* trims; a suffix-like word elsewhere is kept, and a name with neither
\* suffix nor marker is returned as it is.
C24_NormalizeName ==
    fpc = "done" =>
        /\ fret[1] = Normalized(NameTokens)
        /\ (SuffixWords(NameTokens) = 0
               /\ \A k \in DOMAIN NameTokens : ~ IsMarker(NameTokens[k]))
              => fret[1] = farg

\* a normalized name of three words: a suffix-like word that does not end
\* it, the marker, and a suffix at its end
C24_Witness ==
    /\ fpc = "done"
    /\ Len(NameTokens) = 3
    /\ IsSuffixWord(NameTokens[1])
    /\ IsMarker(NameTokens[2])
    /\ SuffixWords(NameTokens) = 1
    /\ fret[1] = NameTokens[1]

\* the title and the snippet of the call as the text that is searched, and
\* the significant keywords of the company of the call
RawText == toLowerCase(Chars(farg.title) \o << " " >> \o Chars(farg.snippet))

CleanedText == cleanText(Chars(farg.title), Chars(farg.snippet))

Keywords ==
    Range(sortedKeywords(
              toLowerCase(normalizeCompanyName(Chars(farg.companyName)))))

\* C16: when the company has a significant keyword, the result is true
\* exactly when the longest one is a substring of the cleaned text.
C16_LongestKeywordDecides ==
    fpc = "done" /\ Keywords # {} =>
        LET longest == {w \in Keywords : \A v \in Keywords : Len(v) <= Len(w)}
        IN  fret[1] <=> \E w \in longest : includes(CleanedText, w)

\* the name parts the code looks for, and the text outside the occurrences
\* of the person name of the title
NameParts ==
    {w \in Range(SplitSpaces(contactNameOf(Chars(farg.title)))) : Len(w) >= 3}

OutsideName ==
    LET contactName == contactNameOf(Chars(farg.title))
    IN  IF contactName = << >> THEN RawText
        ELSE replaceAll(RawText, contactName, << " " >>)

\* C17: the result is false when the keywords of the company occur in the
\* text, but nowhere outside the person name; it is true when a keyword
\* occurs outside the person name.
C17_NameCollision ==
    fpc = "done" /\ Keywords # {} =>
        /\ (/\ \E w \in Keywords : includes(RawText, w)
            /\ \A w \in Keywords : ~ includes(OutsideName, w))
               => ~ fret[1]
        /\ (\E w \in Keywords : includes(OutsideName, w)) => fret[1]

\* the words of a text: its maximal runs of word characters
WordsOf(cs) ==
    {SubSeq(cs, i, j) : i \in DOMAIN cs, j \in DOMAIN cs} \cap
    UNION {{SubSeq(cs, i, j) :
               j \in {k \in i..Len(cs) :
                         /\ \A n \in i..k : cs[n] \in WordChars
                         /\ WordBoundary(cs, i - 1)
                         /\ WordBoundary(cs, k)}} : i \in DOMAIN cs}

\* C18: every word of the text that is not a part of the person name is
\* still in the cleaned text, and a keyword of the company that is such a
\* word makes the result true.
C18_WholeWordRemoval ==
    fpc = "done" =>
        \A w \in WordsOf(RawText) \ NameParts :
            /\ includes(CleanedText, w)
            /\ w \in Keywords => fret[1]

\* the normalized target name of the call, lower-cased, and its
\* significant keywords: the words of three or more characters that are
\* not generic
TargetName == toLowerCase(normalizeCompanyName(Chars(farg.targetCompanyName)))

TargetKeywords ==
    {w \in Range(SplitSpaces(TargetName)) : Len(w) >= 3 /\ w \notin skipWords}

EmployerText == toLowerCase(Chars(farg.parsed.employer[1]))

\* C19: verifyContactCompany returns true for a null employer; for an
\* employer text it returns true exactly when the text contains a
\* significant keyword of the target, or the whole normalized target name
\* when the target has no significant keyword.
C19_VerifyEmployer ==
    fpc = "done" =>
        IF farg.parsed.employer = NoEmployer THEN fret[1]
        ELSE fret[1] <=>
                IF TargetKeywords = {} THEN includes(EmployerText, TargetName)
                ELSE \E w \in TargetKeywords : includes(EmployerText, w)

\* a call with an employer text that holds one significant keyword of the
\* target and lacks another
C19_Witness ==
    /\ fpc = "done"
    /\ farg.parsed.employer # NoEmployer
    /\ fret[1]
    /\ \E w \in TargetKeywords : ~ includes(EmployerText, w)
    /\ \E w \in TargetKeywords : includes(EmployerText, w)

(***************************************************************************)
(* Claims on rankContacts                                                  *)
(***************************************************************************)
Orderings(n) ==
    {f \in [1..n -> 1..n] : \A i, j \in 1..n : f[i] = f[j] => i = j}

\* ranked holds the contacts of input, each once, in ascending priority
\* and in the order of input where the priority is equal
IsStableRanking(input, ranked) ==
    /\ Len(ranked) = Len(input)
    /\ \A k \in 1..(Len(ranked) - 1) :
          ranked[k].priority <= ranked[k + 1].priority
    /\ \E from \in Orderings(Len(input)) :
          /\ \A k \in DOMAIN ranked :
                Without(ranked[k], {"priority"}) = input[from[k]]
          /\ \A i, j \in DOMAIN ranked :
                i < j /\ ranked[i].priority = ranked[j].priority
                    => from[i] < from[j]

\* C20: a call of rankContacts leaves its argument as it was and returns
\* the same contacts in ascending priority, contacts of equal priority in
\* the order of the argument; the empty list gives the empty list.
C20_RankStable ==
    [][ fpc = "call" /\ fpc' = "done" =>
            /\ farg' = farg
            /\ IsStableRanking(farg, fret'[1])
            /\ farg = << >> => fret'[1] = << >> ]_vars

\* a ranked list of three contacts: two of equal priority, and one that
\* stood before a contact of lower priority number in the argument
C20_Witness ==
    /\ fpc = "done"
    /\ Len(farg) = 3
    /\ \E i, j \in DOMAIN farg :
          i < j /\ PriorityOf(farg[j]) < PriorityOf(farg[i])
    /\ \E i, j \in DOMAIN farg :
          i < j /\ PriorityOf(farg[j]) = PriorityOf(farg[i])
                /\ farg[i] # farg[j]

\* the seniority table as the specification gives it
SeniorityOf(key) ==
    CASE key \in {"Chief Compliance Officer", "CCO"} -> 1
      [] key \in {"MLRO", "Money Laundering Reporting Officer"} -> 2
      [] key = "Head of Compliance" -> 3
      [] key \in {"VP Compliance", "Vice President Compliance"} -> 4
      [] key \in {"Director of Compliance", "Compliance Director"} -> 5

\* two characters equal up to the case of a letter
SameLetter(a, b) == toLowerCase(<<a>>) = toLowerCase(<<b>>)

\* ks stands somewhere in cs, up to the case of the letters
ContainsIgnoringCase(cs, ks) ==
    \E off \in 0..(Len(cs) - Len(ks)) :
        \A i \in 1..Len(ks) : SameLetter(cs[off + i], ks[i])

\* the keys of the table contained in the title of the contact
KeysIn(c) ==
    IF ~ HasTitle(c) THEN {}
    ELSE {key \in {titlePriority[k].key : k \in DOMAIN titlePriority} :
             ContainsIgnoringCase(Chars(c.title), Chars(key))}

\* C21: rankContacts gives a contact the priority of the most senior key
\* of the seniority table contained, in any case, in its title, and 99
\* when the title contains no key or the contact has no title.
C21_PriorityOfTitle ==
    fpc = "done" =>
        \A i \in DOMAIN farg :
            LET keys == KeysIn(farg[i])
                got  == fret[1][i].priority
            IN  IF keys = {} THEN got = 99
                ELSE /\ \E key \in keys : got = SeniorityOf(key)
                     /\ \A key \in keys : got <= SeniorityOf(key)

\* a ranked contact whose title holds two keys of different seniority,
\* the less senior one first, neither written as in the table
C21_Witness ==
    /\ fpc = "done"
    /\ farg = << [name |-> "Alice",
                  title |-> "HEAD OF COMPLIANCE & mlro"] >>
    /\ fret[1][1].priority = 2

(***************************************************************************)
(* Claims on the searches of a pipeline run                                *)
(***************************************************************************)
\* positions a < b of the log that hold two consecutive searches
ConsecutiveSearches(a, b) ==
    /\ a < b
    /\ searchLog[a].ev = "search"
    /\ searchLog[b].ev = "search"
    /\ \A k \in (a + 1)..(b - 1) : searchLog[k].ev # "search"

\* C22: between any two consecutive searches of a pipeline run, of one
\* company or of two, the inter-search pause of SEARCH_DELAY is executed.
C22_PauseBetweenSearches ==
    \A a, b \in DOMAIN searchLog :
        ConsecutiveSearches(a, b) =>
            \E k \in (a + 1)..(b - 1) :
                searchLog[k].ev = "pause" /\ searchLog[k].ms = SEARCH_DELAY

(***************************************************************************)
(* Claims on mergeRows                                                     *)
(***************************************************************************)
\* the first position of rows that holds the name
FirstRowOf(rows, name) ==
    CHOOSE k \in DOMAIN rows :
        rows[k].name = name /\ \A j \in 1..(k - 1) : rows[j].name # name

\* the non-empty values of a field in the rows of one name
ValuesOf(rows, name, field) ==
    {rows[k][field] : k \in {j \in DOMAIN rows : rows[j].name = name}} \ {""}

\* the values of seq, each once
HoldsOnce(seq, values) ==
    Range(seq) = values /\ Len(seq) = Cardinality(values)

\* merged is what the claim says of mergeRows(rows)
IsMergeOf(rows, merged) ==
    /\ \A i, j \in DOMAIN merged :
          i < j => /\ merged[i].name # merged[j].name
                   /\ FirstRowOf(rows, merged[i].name)
                          < FirstRowOf(rows, merged[j].name)
    /\ {merged[i].name : i \in DOMAIN merged}
          = {rows[k].name : k \in DOMAIN rows}
    /\ \A i \in DOMAIN merged :
          /\ HoldsOnce(merged[i].licenseTypes,
                       ValuesOf(rows, merged[i].name, "licenseType"))
          /\ HoldsOnce(merged[i].activities,
                       ValuesOf(rows, merged[i].name, "activity"))

\* the licence types and activities of every name, as sets
CollectionsOf(merged) ==
    {<<merged[i].name, Range(merged[i].licenseTypes),
       Range(merged[i].activities)>> : i \in DOMAIN merged}

\* C23: mergeRows returns one entity per distinct row name, in the order
\* of first occurrence, whose licenseTypes and activities hold every
\* non-empty licence type and activity of the rows of that name, each once;
\* as sets they are the same for every order of the rows.
C23_MergeRows ==
    fpc = "done" =>
        /\ IsMergeOf(farg, fret[1])
        /\ \A f \in Orderings(Len(farg)) :
              CollectionsOf(mergeRows([k \in DOMAIN farg |-> farg[f[k]]]))
                  = CollectionsOf(fret[1])

\* three rows of one organisation were merged: a licence type twice, a
\* row without activity, two activities
C23_Witness ==
    /\ fpc = "done"
    /\ Len(farg) = 3
    /\ Len(fret[1]) = 1
    /\ \E i, j \in DOMAIN farg :
          i < j /\ farg[i].licenseType = farg[j].licenseType
                /\ farg[i].licenseType # ""
    /\ \E i \in DOMAIN farg : farg[i].activity = ""
    /\ Len(fret[1][1].activities) = 2

(***************************************************************************)
(* Claims on the confidence score and the review gate                      *)
(***************************************************************************)
\* the criteria a prospect meets
KnownLicence(p) ==
    p.licenseType \in {"Capital Markets Services Licensee",
                       "Major Payment Institution",
                       "Standard Payment Institution"}

HasEmail(p) == p.contact # Undefined /\ p.contact.email # ""

ComplianceTitle(p) ==
    /\ p.contact # Undefined
    /\ \E k \in {"compliance", "cco", "mlro", "aml", "kyc", "regulatory"} :
          ContainsIgnoringCase(Chars(p.contact.title), Chars(k))

NameAndWebsite(p) ==
    p.company # Undefined /\ p.company.name # "" /\ p.company.website # ""

\* the weight of a criterion, in hundredths
Weight(holds, w) == IF holds THEN w ELSE 0

\* C25: calculateConfidence returns the sum of the weights of the criteria
\* the prospect meets (0.30 licence type, 0.25 email, 0.25 compliance title,
\* 0.20 name and website); the score lies in [0, 1], is 0 when no criterion
\* holds and 1 when all four hold.
C25_ConfidenceScore ==
    fpc = "done" =>
        LET l == KnownLicence(farg)
            e == HasEmail(farg)
            t == ComplianceTitle(farg)
            c == NameAndWebsite(farg)
        IN  /\ fret[1] = Weight(l, 30) + Weight(e, 25) + Weight(t, 25)
                            + Weight(c, 20)
            /\ fret[1] \in 0..100
            /\ (~ l /\ ~ e /\ ~ t /\ ~ c) => fret[1] = 0
            /\ (l /\ e /\ t /\ c) => fret[1] = 100

\* a scored prospect that meets all four criteria
C25_Witness ==
    /\ fpc = "done"
    /\ KnownLicence(farg)
    /\ HasEmail(farg)
    /\ ComplianceTitle(farg)
    /\ NameAndWebsite(farg)
    /\ fret[1] = 100

\* C26: createSequence sets requiresReview exactly when the score is below
\* 0.7, and then each of the four steps is 'pending_review'; otherwise each
\* of the four steps is 'ready'.
C26_ReviewGate ==
    fpc = "done" =>
        LET r == fret[1]
        IN  /\ r.requiresReview = (r.confidence < 70)
            /\ Len(r.sequence) = 4
            /\ \A k \in DOMAIN r.sequence :
                  r.sequence[k].status
                      = (IF r.confidence < 70 THEN "pending_review"
                         ELSE "ready")

\* a sequence of a prospect whose score is the threshold itself: email,
\* compliance title, name and website, a licence type outside the mapping
C26_Witness ==
    /\ fpc = "done"
    /\ fret[1].confidence = 70
    /\ ~ fret[1].requiresReview
    /\ ~ KnownLicence(farg)

(***************************************************************************)
(* Claims on scrapeAll                                                     *)
(***************************************************************************)
\* the rows of the pages that were fetched, in the order of the requests
RECURSIVE FetchedRows(_)
FetchedRows(log) ==
    IF log = << >> THEN << >>
    ELSE (IF Head(log).outcome = "ok" THEN RegistryPage(Head(log).category)
          ELSE << >>) \o FetchedRows(Tail(log))

\* C27: in a call of scrapeAll no category is requested twice; a category
\* whose fetch fails does not end the call, every category after it is
\* still requested, and the rows of the categories that were fetched are
\* merged and returned.
C27_NoRetryNoAbort ==
    /\ \A i, j \in DOMAIN fetchLog :
          fetchLog[i].category = fetchLog[j].category => i = j
    /\ cpc = "done" =>
          /\ {fetchLog[i].category : i \in DOMAIN fetchLog}
                = Range(WATCHED_CATEGORIES)
          /\ IsMergeOf(FetchedRows(fetchLog), scraped)

\* a call that returned the entities of the second category after the
\* fetch of the first one failed
C27_Witness ==
    /\ cpc = "done"
    /\ fetchLog[1].outcome \in {"fetch rejects", "HTTP 503"}
    /\ fetchLog[2].outcome = "ok"
    /\ Len(scraped) = 2

(***************************************************************************)
(* Claims on the watcher and the pipeline together                         *)
(***************************************************************************)
\* the names of the entities of the snapshot with stamp f
NamesIn(f) ==
    LET insts == JSONparse(files[f]).val.institutions
    IN  {insts[k].name : k \in DOMAIN insts}

\* the snapshots on disk that precede the snapshot with stamp f
Before(f) == {g \in DOMAIN files : LexLess(g, f)}

\* the entities that are in the snapshot f and not in the one before it
NewIn(f) ==
    IF Before(f) = {} THEN {}
    ELSE NamesIn(f) \ NamesIn(LatestFile(Before(f)))

\* the snapshots that were saved between run k - 1 and run k of the
\* pipeline
SavedBefore(k) ==
    selectLog[k].snapshots
        \ (IF k = 1 THEN {} ELSE selectLog[k - 1].snapshots)

\* C28: every entity that is in a snapshot and not in the snapshot before
\* it is selected by the next pipeline run in diff mode that follows the
\* snapshot.
C28_NewEntitiesSelected ==
    \A k \in DOMAIN selectLog :
        \A f \in SavedBefore(k) : NewIn(f) \subseteq selectLog[k].selected

(***************************************************************************)
(* Claims on the order of load and save in a watcher run                   *)
(***************************************************************************)
\* the diff of a scrape against what was the latest snapshot when the run
\* started
DiffAgainst(insts, prev) ==
    IF prev.kind = "snapshot"
    THEN diffSnapshots(insts, prev.data.institutions)
    ELSE [added |-> insts, removed |-> << >>]

\* C30: in a watcher run with a non-empty scrape the previous snapshot is
\* loaded before the current one is saved: while and after the run saves,
\* the snapshot it holds as previous is the one that was the latest when
\* the run started, and the report it writes is the diff of the scrape
\* against that snapshot, never against the one the run saved; when there
\* was no snapshot, everything scraped is reported as added and nothing as
\* removed.
C30_DiffAgainstPrevious ==
    /\ wpc \in {"loaded", "writing", "saved"} =>
          /\ ~ NothingScraped(institutions)
          /\ wprevious = wstart
          /\ wstart.kind \in {"null", "snapshot"}
    /\ (wpc = "exit" /\ exitCode = 0) =>
          /\ lastSaved.kind = "saved"
          /\ ~ NothingScraped(lastSaved.x)
          /\ report.added = DiffAgainst(lastSaved.x, wstart).added
          /\ report.removed = DiffAgainst(lastSaved.x, wstart).removed
          /\ wstart.kind = "null" =>
                report.added = lastSaved.x /\ report.removed = << >>

\* a run has reported entities as added against an earlier snapshot, and
\* the snapshot it saved is now the latest
C30_Witness ==
    /\ wpc = "exit"
    /\ exitCode = 0
    /\ wstart.kind = "snapshot"
    /\ Len(report.added) > 0
    /\ loadLatestSnapshot.kind = "snapshot"
    /\ loadLatestSnapshot.data.institutions = lastSaved.x

(***************************************************************************)
(* Claims on the two files of the pipeline together                        *)
(***************************************************************************)
\* the record of a company in the persisted enrichment state says
\* 'enriched' and lists a contact
EnrichedOnDisk(company) ==
    \E j \in DOMAIN ExistingEnrichment :
        /\ ExistingEnrichment[j].company = company
        /\ ExistingEnrichment[j].status = "enriched"
        /\ Len(ExistingEnrichment[j].contacts) > 0

\* C29: after any sequence of pipeline runs, every record of the persisted
\* outreach state belongs to a company whose record in the persisted
\* enrichment state has the status 'enriched' and a contact list that is
\* not empty.
C29_OutreachOnlyForEnriched ==
    (ppc = "exit" /\ pexit = 0) =>
        \A k \in DOMAIN ExistingOutreach :
            EnrichedOnDisk(ExistingOutreach[k].company)

====
